---- MODULE Spec2Model ----
(***************************************************************************)
(* Chunk streaming pipeline of three-vibes: ChunkStateManager, ChunkManager *)
(* (the streaming orchestrator), ChunkWorkerPool and the worker contexts,   *)
(* driven by TerrainGenerator.update once per animation frame.              *)
(*                                                                          *)
(* One TLA+ action is one browser task (timer callback, worker message,     *)
(* worker error event, animation frame, UI event) together with the         *)
(* microtasks it leaves behind: a promise settled inside a task resumes the *)
(* awaiting startNewGenerations invocation before the next task starts.     *)
(*                                                                          *)
(* Date.now() is abstracted to what the code compares it with.  The         *)
(* lastAccessed stamps are kept as their order (accessOrder, oldest first); *)
(* whether 100 ms have gone by since lastCameraUpdate, and how many entries *)
(* are older than maxAge, are inputs of the task that asks.  A generationId *)
(* is the chunk key with a tag that differs from the tag of every id of     *)
(* that key the pool or a worker still holds.                               *)
(***************************************************************************)
EXTENDS Integers, Sequences, FiniteSets, TLC

----------------------------------------------------------------------------
(* Bounds of the exploration *)

NumWorkers == 1
PoolWorkers == 2
MaxQueue == 2
MaxMeshes == 1
MaxFailures == 1
MaxRetired == 1
\* the requests the pool holds at once where the generation slots are explored
MaxSlotQueue == 4
\* chunk coordinates run over -CircleSpan..CircleSpan where render distances up to 6 are tried
CircleSpan == 9
\* the largest chunkResolution a geometry is built for
MaxResolution == 3

(* Program constants *)

maxConcurrentGenerations == 2
chunkSize == 100
maxMeshesPerFrame == 1
(* renderRadius of a new ChunkStateManager *)
initialRenderRadius == 6

RenderDistances == {0}

(* the chunks the camera visits: two chunks out of each other's eviction range *)
CamChunks == {<<0, 0>>, <<2, 0>>}

(* the chunks the camera visits when the worker system is off: neighbours too *)
FallbackChunks == {<<0, 0>>, <<1, 0>>, <<2, 0>>}

----------------------------------------------------------------------------
(* Values *)

PENDING == "pending"
GENERATING == "generating"
READY == "ready"
RENDERED == "rendered"
REMOVING == "removing"

Null == "null"
NullId == <<>>
NullData == [kind |-> "null"]
StringData(id) == [kind |-> "string", string |-> id]

Max(a, b) == IF a >= b THEN a ELSE b
Min(a, b) == IF a <= b THEN a ELSE b

Range(q) == {q[i] : i \in DOMAIN q}

Front(q) == SubSeq(q, 1, Len(q) - 1)

RemoveAt(q, i) == SubSeq(q, 1, i - 1) \o SubSeq(q, i + 1, Len(q))

Without(q, v) == SelectSeq(q, LAMBDA e : e # v)

MapDelete(f, k) == [j \in (DOMAIN f) \ {k} |-> f[j]] @@ <<>>

MapSet(f, k, v) == IF k \in DOMAIN f THEN [f EXCEPT ![k] = v] ELSE f @@ (k :> v)

(* a set of chunk keys as a list, by x and then by z *)
KeySeq(keys) ==
    LET Before(j, k) == j[1] < k[1] \/ (j[1] = k[1] /\ j[2] < k[2])
    IN [i \in 1..Cardinality(keys) |->
           CHOOSE k \in keys : Cardinality({j \in keys : Before(j, k)}) = i - 1]

(* Set.add on an insertion-ordered Set: an element already present keeps its place *)
SetAdd(q, v) == IF v \in Range(q) THEN q ELSE Append(q, v)

(* floor(100 * sqrt(d2)), searched upwards from 100 * floor(sqrt(d2)) *)
Sqrt100(d2) ==
    LET k == CHOOSE j \in 0..d2 : j * j <= d2 /\ (j + 1) * (j + 1) > d2
    IN CHOOSE r \in (100 * k)..(100 * k + 99) :
           r * r <= 10000 * d2 /\ (r + 1) * (r + 1) > 10000 * d2

DistSq(x, z, cx, cz) == (x - cx) * (x - cx) + (z - cz) * (z - cz)

(* distance > maxDistance for Math.sqrt(dx*dx + dz*dz) and an integer maxDistance >= 0 *)
OutOfRange(x, z, cx, cz, maxDistance) == DistSq(x, z, cx, cz) > maxDistance * maxDistance

----------------------------------------------------------------------------
(* ChunkStateManager: operators from a manager record to a manager record *)

getChunkKey(x, z) == <<x, z>>

(* Math.max(0, 1000 - distance * 10), kept in hundredths: 100 * sqrt(d2) is floored *)
calculatePriority(m, x, z) ==
    Max(0, 100000 - 10 * Sqrt100(DistSq(x, z, m.centerX, m.centerZ)))

updateChunkStateSet(m, key, oldState, newState) ==
    LET m1 == CASE oldState = PENDING -> [m EXCEPT !.pendingChunks = Without(@, key)]
                [] oldState = GENERATING -> [m EXCEPT !.generatingChunks = MapDelete(@, key)]
                [] oldState = READY -> [m EXCEPT !.readyChunks = Without(@, key)]
                [] oldState = RENDERED -> [m EXCEPT !.renderedChunks = @ \ {key}]
                [] OTHER -> m
    IN CASE newState = PENDING -> [m1 EXCEPT !.pendingChunks = SetAdd(@, key)]
         [] newState = READY -> [m1 EXCEPT !.readyChunks = SetAdd(@, key)]
         [] newState = RENDERED -> [m1 EXCEPT !.renderedChunks = @ \cup {key}]
         [] OTHER -> m1

(* lastAccessed = Date.now(): the entry becomes the most recently accessed one *)
Touch(order, key) == Append(Without(order, key), key)

(* addChunk without its early return for a tracked coordinate *)
addChunk_Overwrites(m, x, z, state) ==
    LET key == getChunkKey(x, z)
        chunkInfo == [key |-> key, x |-> x, z |-> z, state |-> state,
                      generationId |-> NullId, geometryData |-> NullData,
                      priority |-> calculatePriority(m, x, z)]
    IN updateChunkStateSet([m EXCEPT !.chunks = MapSet(@, key, chunkInfo),
                                     !.accessOrder = Touch(@, key)],
                           key, PENDING, state)

addChunk(m, x, z, state) ==
    LET key == getChunkKey(x, z)
        chunkInfo == [key |-> key, x |-> x, z |-> z, state |-> state,
                      generationId |-> NullId, geometryData |-> NullData,
                      priority |-> calculatePriority(m, x, z)]
    IN IF key \in DOMAIN m.chunks
       THEN m
       ELSE updateChunkStateSet([m EXCEPT !.chunks = MapSet(@, key, chunkInfo),
                                          !.accessOrder = Touch(@, key)],
                                key, PENDING, state)

(* data is NullData, StringData(id) for a generation id, or a worker result record *)
setChunkState(m, x, z, newState, data) ==
    LET key == getChunkKey(x, z)
    IN IF key \notin DOMAIN m.chunks
       THEN m
       ELSE LET oldState == m.chunks[key].state
                m1 == [m EXCEPT !.chunks[key].state = newState,
                                !.accessOrder = Touch(@, key)]
                m2 == IF newState = GENERATING /\ data.kind = "string"
                      THEN [m1 EXCEPT !.chunks[key].generationId = data.string,
                                      !.generatingChunks = MapSet(@, key, data.string)]
                      ELSE IF newState = READY /\ data.kind # "null"
                           THEN [m1 EXCEPT !.chunks[key].geometryData = data]
                           ELSE m1
            IN updateChunkStateSet(m2, key, oldState, newState)

getChunkState(m, x, z) ==
    IF getChunkKey(x, z) \in DOMAIN m.chunks THEN m.chunks[getChunkKey(x, z)].state ELSE Null

ChunkStateManager_removeChunk(m, x, z) ==
    LET key == getChunkKey(x, z)
    IN IF key \notin DOMAIN m.chunks
       THEN m
       ELSE [updateChunkStateSet(m, key, m.chunks[key].state, Null)
                EXCEPT !.chunks = MapDelete(@, key), !.accessOrder = Without(@, key)]

(* Array.prototype.sort is stable: insert each key after the keys that do not rank below it *)
RECURSIVE SortByPriority(_, _)
SortByPriority(m, keys) ==
    IF keys = <<>>
    THEN <<>>
    ELSE LET rest == SortByPriority(m, Front(keys))
             k == keys[Len(keys)]
             before == SelectSeq(rest, LAMBDA e : m.chunks[e].priority >= m.chunks[k].priority)
             after == SelectSeq(rest, LAMBDA e : m.chunks[e].priority < m.chunks[k].priority)
         IN before \o <<k>> \o after

getPendingChunks(m) ==
    SortByPriority(m, SelectSeq(m.pendingChunks, LAMBDA k : k \in DOMAIN m.chunks))

getGeneratingChunks(m) == {k \in DOMAIN m.generatingChunks : k \in DOMAIN m.chunks}

(* the ready chunks in the order they became ready, without the sort *)
getReadyChunks_Unsorted(m) == SelectSeq(m.readyChunks, LAMBDA k : k \in DOMAIN m.chunks)

getReadyChunks(m) ==
    SortByPriority(m, SelectSeq(m.readyChunks, LAMBDA k : k \in DOMAIN m.chunks))

getGenerationId(m, x, z) ==
    IF getChunkKey(x, z) \in DOMAIN m.generatingChunks
    THEN m.generatingChunks[getChunkKey(x, z)]
    ELSE NullId

getStats(m) ==
    [total |-> Cardinality(DOMAIN m.chunks),
     pending |-> Len(m.pendingChunks),
     generating |-> Cardinality(DOMAIN m.generatingChunks),
     ready |-> Len(m.readyChunks),
     rendered |-> Cardinality(m.renderedChunks),
     removing |-> Cardinality({k \in DOMAIN m.chunks : m.chunks[k].state = REMOVING})]

cancelGeneratingChunk(m, x, z) ==
    LET key == getChunkKey(x, z)
    IN IF key \in DOMAIN m.chunks /\ m.chunks[key].state = GENERATING
       THEN [m EXCEPT !.chunks[key].state = REMOVING,
                      !.generatingChunks = MapDelete(@, key)]
       ELSE m

updatePriorities(m) ==
    [m EXCEPT !.chunks = [k \in DOMAIN m.chunks |->
        [m.chunks[k] EXCEPT !.priority = calculatePriority(m, m.chunks[k].x, m.chunks[k].z)]]]

(* cleanupOutOfRangeChunks with maxDistance = renderRadius, the buffer of one chunk forgotten *)
OutOfRangeKeys_NoBuffer(m) ==
    {k \in DOMAIN m.chunks :
        OutOfRange(m.chunks[k].x, m.chunks[k].z, m.centerX, m.centerZ, m.renderRadius)}

(* The keys cleanupOutOfRangeChunks collects in chunksToRemove *)
OutOfRangeKeys(m) ==
    {k \in DOMAIN m.chunks :
        OutOfRange(m.chunks[k].x, m.chunks[k].z, m.centerX, m.centerZ, m.renderRadius + 1)}

(* the second loop of cleanupOutOfRangeChunks over a list of keys: the first half of *)
(* the list, then, from the manager m1 that leaves, the second half                 *)
RECURSIVE RemoveKeysIn(_, _)
RemoveKeysIn(m, q) ==
    IF q = <<>>
    THEN m
    ELSE IF Len(q) = 1
    THEN LET k == Head(q)
         IN IF k \in DOMAIN m.chunks
            THEN [updateChunkStateSet(m, k, m.chunks[k].state, Null)
                     EXCEPT !.chunks = MapDelete(@, k), !.accessOrder = Without(@, k)]
            ELSE m
    ELSE LET half == Len(q) \div 2
         IN CHOOSE r \in {RemoveKeysIn(m1, SubSeq(q, half + 1, Len(q))) :
                              m1 \in {RemoveKeysIn(m, SubSeq(q, 1, half))}} : TRUE

RemoveKeys(m, keys) == RemoveKeysIn(m, KeySeq(keys))

(* the first loop of cleanupOutOfRangeChunks *)
RECURSIVE CancelKeysIn(_, _)
CancelKeysIn(m, q) ==
    IF q = <<>>
    THEN m
    ELSE IF Len(q) = 1
    THEN cancelGeneratingChunk(m, Head(q)[1], Head(q)[2])
    ELSE LET half == Len(q) \div 2
         IN CHOOSE r \in {CancelKeysIn(m1, SubSeq(q, half + 1, Len(q))) :
                              m1 \in {CancelKeysIn(m, SubSeq(q, 1, half))}} : TRUE

CancelKeys(m, keys) == CancelKeysIn(m, KeySeq(keys))

cleanupOutOfRangeChunks(m) ==
    LET chunksToRemove == OutOfRangeKeys(m)
    IN RemoveKeys(CancelKeys(m, chunksToRemove), chunksToRemove)

updateCenter(m, x, z) ==
    cleanupOutOfRangeChunks(updatePriorities([m EXCEPT !.centerX = x, !.centerZ = z]))

(* old: how many entries have now - lastAccessed > maxAge; they are the oldest ones *)
cleanup(m, old) ==
    RemoveKeys(m, {k \in Range(SubSeq(m.accessOrder, 1, old)) : m.chunks[k].state # RENDERED})

ChunkStateManager_setRenderRadius(m, radius) == cleanupOutOfRangeChunks([m EXCEPT !.renderRadius = radius])

getRenderRadius(m) == m.renderRadius

----------------------------------------------------------------------------
(* ChunkWorkerPool and the worker contexts.                                  *)
(* The operators below act on a record s of the whole program state:         *)
(*   s.pool      workers, availableWorkers, busyWorkers, taskQueue           *)
(*   s.inflight  per worker, the requests posted to it and not yet answered  *)
(*   s.promises  the startNewGenerations invocations suspended at their      *)
(*               await, by the id of the request they wait for               *)
(*   s.micro     promise reactions scheduled by the running task             *)
(*   s.host      what the browser holds of the pool's doing:                 *)
(*               retired     workers the pool replaced and never terminated  *)
(*               terminated  workers on which terminate() was called         *)
(*               unsettled   ids of the generateChunk promises not settled   *)
(*               disposed    dispose() has run                               *)
(*   s.ev        what the running task did (read by the properties only)     *)
(*               posted, settled, ret: the messages posted to workers, the   *)
(*               promises settled, the count cancelOutOfRangeTasks returned  *)

(* worker objects: those of the largest pool and two replacements *)
WorkerIds == 1..(Max(NumWorkers, PoolWorkers) + 2)

Request(id, x, z) == [id |-> id, chunkX |-> x, chunkZ |-> z]

(* the worker's answer to a request: generateChunkGeometry(request) *)
Result(request, success) ==
    [kind |-> "result", id |-> request.id, chunkX |-> request.chunkX,
     chunkZ |-> request.chunkZ, success |-> success]

(* what the orchestrator keeps of a result: the buffers of the chunk it was computed for *)
GeometryData(result) == [kind |-> "result", chunkX |-> result.chunkX, chunkZ |-> result.chunkZ]

Last(q) == q[Len(q)]

(* Array.prototype.findIndex: 0 stands for -1 *)
FindIndex(q, P(_)) ==
    IF \E i \in DOMAIN q : P(q[i])
    THEN CHOOSE i \in DOMAIN q : P(q[i]) /\ \A j \in 1..(i - 1) : ~P(q[j])
    ELSE 0

LogPost(s, worker, task) ==
    [s EXCEPT !.ev.posted = Append(@, [worker |-> worker, id |-> task.request.id,
                                       posts |-> task.posts])]

(* task.resolve(result) / task.reject(error): the reaction runs after the current task *)
Settle(s, task, outcome, result) ==
    [s EXCEPT !.micro = Append(@, [id |-> task.request.id, outcome |-> outcome,
                                   result |-> result]),
              !.host.unsettled = @ \ {task.request.id},
              !.ev.settled = Append(@, [id |-> task.request.id, outcome |-> outcome,
                                        posts |-> task.posts])]

processNextTask(s) ==
    IF Len(s.pool.taskQueue) = 0 \/ Len(s.pool.availableWorkers) = 0
    THEN s
    ELSE LET worker == Last(s.pool.availableWorkers)
             s1 == [s EXCEPT !.pool.availableWorkers = Front(@)]
             idx == FindIndex(s1.pool.taskQueue, LAMBDA t : worker \notin s1.pool.busyWorkers)
         IN IF idx = 0
            THEN s1
            ELSE LET task == s1.pool.taskQueue[idx]
                     s2 == [s1 EXCEPT !.pool.busyWorkers = @ \cup {worker},
                                      !.pool.taskQueue[idx].posts = @ + 1,
                                      !.inflight[worker] = Append(@, task.request)]
                 IN LogPost(s2, worker, task)

(* posts counts the postMessage calls made with the task's request (read by the properties) *)
ChunkWorkerPool_generateChunk(s, request) ==
    processNextTask([s EXCEPT !.pool.taskQueue = Append(@, [request |-> request, posts |-> 0]),
                              !.host.unsettled = @ \cup {request.id}])

handleWorkerMessage(s, worker, result) ==
    LET s1 == [s EXCEPT !.pool.busyWorkers = @ \ {worker},
                        !.pool.availableWorkers = Append(@, worker)]
        taskIndex == FindIndex(s1.pool.taskQueue, LAMBDA t : t.request.id = result.id)
        s2 == IF taskIndex # 0
              THEN Settle([s1 EXCEPT !.pool.taskQueue = RemoveAt(@, taskIndex)],
                          s1.pool.taskQueue[taskIndex],
                          IF result.success THEN "resolved" ELSE "rejected", result)
              ELSE s1
    IN processNextTask(s2)

(* the worker objects new Worker(...) can return: none the pool holds, nor the failed  *)
(* one, nor a terminated one; a retired worker's name is taken again (that worker      *)
(* raising no further event) only when no other is left                                *)
FreshWorkers(s, failed) ==
    LET held == Range(s.pool.workers) \cup Range(s.pool.availableWorkers)
                    \cup s.pool.busyWorkers \cup {failed} \cup s.host.terminated
        unused == WorkerIds \ (held \cup s.host.retired)
    IN IF unused # {} THEN unused ELSE WorkerIds \ held

(* createWorker() *)
createWorker(s, failed) ==
    CHOOSE w \in FreshWorkers(s, failed) : \A v \in FreshWorkers(s, failed) : w <= v

RECURSIVE RejectAll(_, _, _)
RejectAll(s, tasks, reason) ==
    IF tasks = <<>>
    THEN s
    ELSE RejectAll(Settle(s, Head(tasks), "rejected", [kind |-> "error", error |-> reason]),
                   Tail(tasks), reason)

(* handleWorkerError with the failed worker left in availableWorkers *)
handleWorkerError_KeepsIdle(s, worker) ==
    LET workerIndex == FindIndex(s.pool.workers, LAMBDA w : w = worker)
        s1 == [s EXCEPT !.pool.busyWorkers = @ \ {worker},
                        !.pool.workers = IF workerIndex # 0 THEN RemoveAt(@, workerIndex) ELSE @]
        newWorker == createWorker(s1, worker)
        s2 == [s1 EXCEPT !.pool.workers = Append(@, newWorker),
                         !.pool.availableWorkers = Append(@, newWorker),
                         !.inflight[newWorker] = <<>>,
                         !.host.retired = (@ \cup {worker}) \ {newWorker}]
        s3 == RejectAll(s2, s2.pool.taskQueue, "Worker failed")
    IN [s3 EXCEPT !.pool.taskQueue = <<>>]

handleWorkerError(s, worker) ==
    LET availableIndex == FindIndex(s.pool.availableWorkers, LAMBDA w : w = worker)
        workerIndex == FindIndex(s.pool.workers, LAMBDA w : w = worker)
        s1 == [s EXCEPT !.pool.busyWorkers = @ \ {worker},
                        !.pool.availableWorkers =
                            IF availableIndex # 0 THEN RemoveAt(@, availableIndex) ELSE @,
                        !.pool.workers = IF workerIndex # 0 THEN RemoveAt(@, workerIndex) ELSE @]
        newWorker == createWorker(s1, worker)
        s2 == [s1 EXCEPT !.pool.workers = Append(@, newWorker),
                         !.pool.availableWorkers = Append(@, newWorker),
                         !.inflight[newWorker] = <<>>,
                         !.host.retired = (@ \cup {worker}) \ {newWorker}]
        s3 == RejectAll(s2, s2.pool.taskQueue, "Worker failed")
    IN [s3 EXCEPT !.pool.taskQueue = <<>>]

(* the indices cancelOutOfRangeTasks collects in tasksToCancel, ascending *)
TasksToCancel(queue, centerX, centerZ, maxDistance) ==
    SelectSeq([i \in 1..Len(queue) |-> i],
              LAMBDA i : OutOfRange(queue[i].request.chunkX, queue[i].request.chunkZ,
                                    centerX, centerZ, maxDistance))

RECURSIVE CancelFromBack(_, _)
CancelFromBack(s, tasksToCancel) ==
    IF tasksToCancel = <<>>
    THEN s
    ELSE LET taskIndex == Last(tasksToCancel)
             task == s.pool.taskQueue[taskIndex]
             s1 == Settle([s EXCEPT !.pool.taskQueue = RemoveAt(@, taskIndex)], task, "rejected",
                          [kind |-> "error", error |-> "cancelled - out of range"])
         IN CancelFromBack([s1 EXCEPT !.ev.ret = @ + 1], Front(tasksToCancel))

(* the returned cancelledCount is left in s.ev.ret *)
cancelOutOfRangeTasks(s, centerX, centerZ, maxDistance) ==
    CancelFromBack([s EXCEPT !.ev.ret = 0],
                   TasksToCancel(s.pool.taskQueue, centerX, centerZ, maxDistance))

RECURSIVE TerminateAll(_, _)
TerminateAll(s, workers) ==
    IF workers = <<>>
    THEN s
    ELSE TerminateAll([s EXCEPT !.host.terminated = @ \cup {Head(workers)},
                                !.inflight[Head(workers)] = <<>>],
                      Tail(workers))

(* dispose() rejecting only the requests no worker has been posted *)
dispose_WaitingOnly(s) ==
    LET s1 == TerminateAll(s, s.pool.workers)
        s2 == [s1 EXCEPT !.pool.workers = <<>>,
                         !.pool.availableWorkers = <<>>,
                         !.pool.busyWorkers = {}]
        s3 == RejectAll(s2, SelectSeq(s2.pool.taskQueue, LAMBDA task : task.posts = 0),
                        "Worker pool disposed")
    IN [s3 EXCEPT !.pool.taskQueue = <<>>, !.host.disposed = TRUE]

dispose(s) ==
    LET s1 == TerminateAll(s, s.pool.workers)
        s2 == [s1 EXCEPT !.pool.workers = <<>>,
                         !.pool.availableWorkers = <<>>,
                         !.pool.busyWorkers = {}]
        s3 == RejectAll(s2, s2.pool.taskQueue, "Worker pool disposed")
    IN [s3 EXCEPT !.pool.taskQueue = <<>>, !.host.disposed = TRUE]

ChunkWorkerPool_getStats(s) ==
    [totalWorkers |-> Len(s.pool.workers),
     availableWorkers |-> Len(s.pool.availableWorkers),
     busyWorkers |-> Cardinality(s.pool.busyWorkers),
     queuedTasks |-> Len(s.pool.taskQueue)]

----------------------------------------------------------------------------
(* ChunkManager (streaming orchestrator)                                     *)
(*   s.sm   the ChunkStateManager record                                     *)
(*   s.cm   chunks (keys of the render map), scene (terrain meshes in the    *)
(*          scene per key), isWorkerSystemEnabled, processingInterval,       *)
(*          lastCameraUpdate (0, or 1 once an update has been accepted)      *)
(*   s.raf  mesh creations handed to requestAnimationFrame, oldest first     *)
(*   s.evicted  the coordinates updateCenter or setRenderRadius dropped and  *)
(*          generateChunk has not added again (read by the properties only)  *)
(*   s.failures  the worker failures counted by SpecLive, which bounds them  *)

(* new ChunkStateManager() *)
InitStateManager(radius) ==
    [chunks |-> <<>>, pendingChunks |-> <<>>, generatingChunks |-> <<>>, readyChunks |-> <<>>,
     renderedChunks |-> {}, centerX |-> 0, centerZ |-> 0, renderRadius |-> radius,
     accessOrder |-> <<>>]

(* new ChunkWorkerPool(config) followed by initialize() *)
InitPool(maxWorkers) ==
    [workers |-> [i \in 1..maxWorkers |-> i], availableWorkers |-> [i \in 1..maxWorkers |-> i],
     busyWorkers |-> {}, taskQueue |-> <<>>]

(* the double loop over -r..r without the distance test *)
CircleOffsets_Square(r) ==
    [i \in 1..((2 * r + 1) * (2 * r + 1)) |->
        <<((i - 1) \div (2 * r + 1)) - r, ((i - 1) % (2 * r + 1)) - r>>]

(* the offsets (x, z) of the double loop over -r..r that pass Math.sqrt(x*x + z*z) <= r, *)
(* in loop order; for integers the test is x*x + z*z <= r*r                             *)
CircleOffsets(r) ==
    SelectSeq([i \in 1..((2 * r + 1) * (2 * r + 1)) |->
                  <<((i - 1) \div (2 * r + 1)) - r, ((i - 1) % (2 * r + 1)) - r>>],
              LAMBDA o : o[1] * o[1] + o[2] * o[2] <= r * r)

World ==
    UNION {{<<c[1] + o[1], c[2] + o[2]>> : o \in Range(CircleOffsets(r))} :
               c \in CamChunks \cup FallbackChunks, r \in RenderDistances}

(* every generation id the pool or a worker holds *)
LiveIds(s) ==
    {t.request.id : t \in Range(s.pool.taskQueue)}
    \cup UNION {{e.id : e \in Range(s.inflight[w])} : w \in WorkerIds}

(* `${chunkInfo.key}_${Date.now()}`: the key with the first tag no held id of the key carries *)
NewGenerationId(s, key) ==
    LET used == {id[3] : id \in {i \in LiveIds(s) : <<i[1], i[2]>> = key}}
        tag == CHOOSE n \in 0..Cardinality(used) :
                   n \notin used /\ \A j \in 0..(n - 1) : j \in used
    IN <<key[1], key[2], tag>>

(* Array.prototype.slice(0, end) *)
Slice0(q, end) ==
    LET e == IF end < 0 THEN Max(Len(q) + end, 0) ELSE Min(end, Len(q))
    IN SubSeq(q, 1, e)

(* startNewGenerations, the for loop from one iteration up to its await *)
GenerationLoop(s, chunksToGenerate) ==
    IF chunksToGenerate = <<>>
    THEN s
    ELSE LET key == Head(chunksToGenerate)
             generationId == NewGenerationId(s, key)
             request == Request(generationId, key[1], key[2])
             s1 == [s EXCEPT !.sm = setChunkState(@, key[1], key[2], GENERATING,
                                                  StringData(generationId)),
                             !.ev.dispatched = Append(@, key)]
             s2 == [s1 EXCEPT !.promises = MapSet(@, generationId,
                        [key |-> key, rest |-> Tail(chunksToGenerate)])]
         IN ChunkWorkerPool_generateChunk(s2, request)

startNewGenerations(s) ==
    LET pendingChunks == getPendingChunks(s.sm)
        generatingCount == Cardinality(getGeneratingChunks(s.sm))
        availableSlots == maxConcurrentGenerations - generatingCount
        chunksToGenerate == Slice0(pendingChunks, availableSlots)
    IN GenerationLoop(s, chunksToGenerate)

(* startNewGenerations after its await, without the currentState === GENERATING check *)
ResumeGeneration_NoStateCheck(s, id, outcome, result) ==
    LET co == s.promises[id]
        x == co.key[1]
        z == co.key[2]
        s0 == [s EXCEPT !.promises = MapDelete(@, id)]
        s1 == IF outcome = "resolved"
              THEN [s0 EXCEPT !.sm = setChunkState(@, x, z, READY, GeometryData(result)),
                              !.ev.applied = Append(@, co.key)]
              ELSE [s0 EXCEPT !.sm = setChunkState(@, x, z, PENDING, NullData),
                              !.ev.failed = Append(@, [key |-> co.key,
                                                       from |-> getChunkState(s.sm, x, z)])]
    IN GenerationLoop(s1, co.rest)

(* startNewGenerations after its await, with a catch block that only logs *)
ResumeGeneration_NoRetry(s, id, outcome, result) ==
    LET co == s.promises[id]
        x == co.key[1]
        z == co.key[2]
        currentState == getChunkState(s.sm, x, z)
        s0 == [s EXCEPT !.promises = MapDelete(@, id)]
        s1 == IF outcome = "resolved"
              THEN IF currentState = GENERATING
                   THEN [s0 EXCEPT !.sm = setChunkState(@, x, z, READY, GeometryData(result)),
                                   !.ev.applied = Append(@, co.key)]
                   ELSE [s0 EXCEPT !.ev.discarded = Append(@, co.key)]
              ELSE [s0 EXCEPT !.ev.failed = Append(@, [key |-> co.key, from |-> currentState])]
    IN GenerationLoop(s1, co.rest)

(* startNewGenerations after its await: the result check, or the catch block, then the loop *)
ResumeGeneration(s, id, outcome, result) ==
    LET co == s.promises[id]
        x == co.key[1]
        z == co.key[2]
        currentState == getChunkState(s.sm, x, z)
        s0 == [s EXCEPT !.promises = MapDelete(@, id)]
        s1 == IF outcome = "resolved"
              THEN IF currentState = GENERATING
                   THEN [s0 EXCEPT !.sm = setChunkState(@, x, z, READY, GeometryData(result)),
                                   !.ev.applied = Append(@, co.key)]
                   ELSE [s0 EXCEPT !.ev.discarded = Append(@, co.key)]
              ELSE [s0 EXCEPT !.sm = setChunkState(@, x, z, PENDING, NullData),
                              !.ev.failed = Append(@, [key |-> co.key, from |-> currentState])]
    IN GenerationLoop(s1, co.rest)

(* the reactions of the promises settled by the running task, in settlement order *)
RECURSIVE RunMicrotasks(_)
RunMicrotasks(s) ==
    IF s.micro = <<>>
    THEN s
    ELSE LET m == Head(s.micro)
             s1 == [s EXCEPT !.micro = Tail(@)]
         IN IF m.id \in DOMAIN s1.promises
            THEN RunMicrotasks(ResumeGeneration(s1, m.id, m.outcome, m.result))
            ELSE RunMicrotasks(s1)

createChunkMeshFromWorkerData(s, result) ==
    LET chunkKey == <<result.chunkX, result.chunkZ>>
    IN IF chunkKey \in s.cm.chunks
       THEN s
       ELSE [s EXCEPT !.raf = Append(@, chunkKey)]

(* the requestAnimationFrame callback of createChunkMeshFromWorkerData *)
CreateMeshCallback(s, chunkKey) ==
    [s EXCEPT !.cm.scene[chunkKey] = @ + 1,
              !.cm.chunks = @ \cup {chunkKey},
              !.ev.meshed = @ \cup {chunkKey}]

RECURSIVE RunAnimationFrameCallbacks(_)
RunAnimationFrameCallbacks(s) ==
    IF s.raf = <<>>
    THEN s
    ELSE RunAnimationFrameCallbacks(CreateMeshCallback([s EXCEPT !.raf = Tail(@)], Head(s.raf)))

(* throws: the keys for which building the mesh raises an exception *)
RECURSIVE ProcessReadyFrom(_, _, _, _)
ProcessReadyFrom(s, readyChunks, processedCount, throws) ==
    IF readyChunks = <<>> \/ processedCount >= maxMeshesPerFrame
    THEN s
    ELSE LET key == Head(readyChunks)
             chunkInfo == s.sm.chunks[key]
         IN IF chunkInfo.geometryData.kind = "null"
            THEN ProcessReadyFrom(s, Tail(readyChunks), processedCount, throws)
            ELSE IF key \in throws
                 THEN ProcessReadyFrom(
                          [s EXCEPT !.sm = setChunkState(@, key[1], key[2], PENDING, NullData)],
                          Tail(readyChunks), processedCount, throws)
                 ELSE ProcessReadyFrom(
                          [createChunkMeshFromWorkerData(s, chunkInfo.geometryData)
                              EXCEPT !.sm = setChunkState(@, key[1], key[2], RENDERED, NullData),
                                     !.ev.consumed = Append(@, key)],
                          Tail(readyChunks), processedCount + 1, throws)

processReadyChunks(s, throws) == ProcessReadyFrom(s, getReadyChunks(s.sm), 0, throws)

processChunkQueue(s, throws) ==
    IF ~s.cm.isWorkerSystemEnabled
    THEN s
    ELSE startNewGenerations(processReadyChunks(s, throws))

(* createChunkMesh(x, z, generateChunkGeometry(x, z)): the synchronous path *)
createChunkMesh(s, chunkKey) ==
    IF chunkKey \in s.cm.chunks
    THEN s
    ELSE [s EXCEPT !.cm.scene[chunkKey] = @ + 1,
                   !.cm.chunks = @ \cup {chunkKey},
                   !.ev.meshed = @ \cup {chunkKey}]

generateChunkLegacy(s, chunkX, chunkZ) == createChunkMesh(s, <<chunkX, chunkZ>>)

(* generateChunk asking the state manager whatever isWorkerSystemEnabled says *)
ChunkManager_generateChunk_NoFallback(s, chunkX, chunkZ) ==
    [s EXCEPT !.sm = addChunk(@, chunkX, chunkZ, PENDING),
              !.evicted = @ \ {<<chunkX, chunkZ>>},
              !.ev.requested = @ \cup {<<chunkX, chunkZ>>}]

(* ev.requested: the coordinates generateChunk / generateChunks were called with *)
ChunkManager_generateChunk(s, chunkX, chunkZ) ==
    LET s0 == [s EXCEPT !.ev.requested = @ \cup {<<chunkX, chunkZ>>}]
    IN IF s0.cm.isWorkerSystemEnabled
       THEN [s0 EXCEPT !.sm = addChunk(@, chunkX, chunkZ, PENDING),
                       !.evicted = @ \ {<<chunkX, chunkZ>>}]
       ELSE generateChunkLegacy(s0, chunkX, chunkZ)

(* generateChunks(chunks): tracked as PENDING with the worker system, built on the spot *)
(* without it (geometry, then mesh, then water, for the chunks that have no mesh)      *)
(* (the loop over chunks, in order: a list is done as its first half, then, from the *)
(* state s1 that leaves, its second)                                                *)
RECURSIVE ChunkManager_generateChunks(_, _)
ChunkManager_generateChunks(s, chunks) ==
    IF chunks = <<>>
    THEN s
    ELSE IF Len(chunks) = 1
    THEN LET chunk == Head(chunks)
             s0 == [s EXCEPT !.ev.requested = @ \cup {chunk}]
         IN IF s0.cm.isWorkerSystemEnabled
            THEN [s0 EXCEPT !.sm = addChunk(@, chunk[1], chunk[2], PENDING),
                            !.evicted = @ \ {chunk}]
            ELSE createChunkMesh(s0, chunk)
    ELSE LET half == Len(chunks) \div 2
         IN CHOOSE r \in {ChunkManager_generateChunks(s1, SubSeq(chunks, half + 1, Len(chunks))) :
                              s1 \in {ChunkManager_generateChunks(s, SubSeq(chunks, 1, half))}} :
                TRUE

(* initializeWorkerSystem(): workerPool.initialize() registers its workers one by one; *)
(* it fails, with created workers registered, when Worker is unsupported or creating a *)
(* worker throws (ok = FALSE), and the catch block turns the worker system off         *)
initializeWorkerSystem(s, created, ok) ==
    IF ~s.cm.isWorkerSystemEnabled
    THEN s
    ELSE LET s1 == [s EXCEPT !.pool = InitPool(created)]
         IN IF ok
            THEN [s1 EXCEPT !.cm.processingInterval = TRUE]
            ELSE [s1 EXCEPT !.cm.isWorkerSystemEnabled = FALSE,
                            !.sm = InitStateManager(initialRenderRadius)]

ChunkManager_removeChunk(s, chunkKey) ==
    IF chunkKey \notin s.cm.chunks
    THEN s
    ELSE [s EXCEPT !.cm.scene[chunkKey] = @ - 1,
                   !.cm.chunks = @ \ {chunkKey},
                   !.ev.unmeshed = @ \cup {chunkKey}]

ChunkManager_setRenderRadius(s, radius) ==
    LET out == OutOfRangeKeys([s.sm EXCEPT !.renderRadius = radius])
    IN [s EXCEPT !.sm = ChunkStateManager_setRenderRadius(@, radius),
                 !.evicted = @ \cup out,
                 !.ev.evicted = @ \cup out]

(* x, z are given as the chunk the camera is in: Math.floor(x / chunkSize) is taken by the caller *)
(* elapsed: now - lastCameraUpdate >= 100, which holds anyway while lastCameraUpdate is 0 *)
updateCameraPosition(s, chunkX, chunkZ, elapsed) ==
    IF s.cm.lastCameraUpdate # 0 /\ ~elapsed
    THEN s
    ELSE LET out == OutOfRangeKeys([s.sm EXCEPT !.centerX = chunkX, !.centerZ = chunkZ])
             s1 == [s EXCEPT !.cm.lastCameraUpdate = 1,
                             !.sm = updateCenter(@, chunkX, chunkZ),
                             !.evicted = @ \cup out,
                             !.ev.evicted = @ \cup out,
                             !.ev.centered = TRUE]
         IN IF s1.cm.isWorkerSystemEnabled
            THEN cancelOutOfRangeTasks(s1, chunkX, chunkZ, getRenderRadius(s1.sm) + 1)
            ELSE s1

----------------------------------------------------------------------------
(* TerrainGenerator *)

(* the loop of update() over the offsets, in order: a list of offsets is done as its *)
(* first half, then its second                                                      *)
RECURSIVE GenerateAround(_, _, _, _)
GenerateAround(s, chunkX, chunkZ, offsets) ==
    IF offsets = <<>>
    THEN s
    ELSE IF Len(offsets) = 1
    THEN LET targetX == chunkX + Head(offsets)[1]
             targetZ == chunkZ + Head(offsets)[2]
         IN IF <<targetX, targetZ>> \notin s.cm.chunks
            THEN ChunkManager_generateChunk(s, targetX, targetZ)
            ELSE s
    ELSE LET half == Len(offsets) \div 2
         IN CHOOSE r \in {GenerateAround(s1, chunkX, chunkZ,
                                         SubSeq(offsets, half + 1, Len(offsets))) :
                              s1 \in {GenerateAround(s, chunkX, chunkZ,
                                                     SubSeq(offsets, 1, half))}} :
                TRUE

(* chunksToRemove.forEach(key => removeChunk(key)) *)
RECURSIVE RemoveChunksIn(_, _)
RemoveChunksIn(s, q) ==
    IF q = <<>>
    THEN s
    ELSE IF Len(q) = 1
    THEN ChunkManager_removeChunk(s, Head(q))
    ELSE LET half == Len(q) \div 2
         IN CHOOSE r \in {RemoveChunksIn(s1, SubSeq(q, half + 1, Len(q))) :
                              s1 \in {RemoveChunksIn(s, SubSeq(q, 1, half))}} : TRUE

RemoveChunks(s, keys) == RemoveChunksIn(s, KeySeq(keys))

TerrainGenerator_update(s, chunkX, chunkZ, elapsed) ==
    LET s1 == updateCameraPosition([s EXCEPT !.tg.camera = <<chunkX, chunkZ>>],
                                   chunkX, chunkZ, elapsed)
        s2 == GenerateAround(s1, chunkX, chunkZ, CircleOffsets(s1.tg.renderDistance))
        chunksToRemove == {k \in s2.cm.chunks :
                              OutOfRange(k[1], k[2], chunkX, chunkZ, s2.tg.renderDistance + 1)}
    IN RemoveChunks(s2, chunksToRemove)

(* the initial burst around chunk (0, 0) *)
generateInitialChunks(s) ==
    ChunkManager_generateChunks(s, CircleOffsets(s.tg.renderDistance))

RECURSIVE GenerateEach(_, _)
GenerateEach(s, offsets) ==
    IF offsets = <<>>
    THEN s
    ELSE IF Len(offsets) = 1
    THEN ChunkManager_generateChunk(s, Head(offsets)[1], Head(offsets)[2])
    ELSE LET half == Len(offsets) \div 2
         IN CHOOSE r \in {GenerateEach(s1, SubSeq(offsets, half + 1, Len(offsets))) :
                              s1 \in {GenerateEach(s, SubSeq(offsets, 1, half))}} :
                TRUE

(* the initial burst of the TerrainGenerator that calls generateChunk per coordinate *)
generateInitialChunksEach(s) == GenerateEach(s, CircleOffsets(s.tg.renderDistance))

updateRenderDistance(s, newDistance) ==
    ChunkManager_setRenderRadius([s EXCEPT !.tg.renderDistance = newDistance], newDistance)

----------------------------------------------------------------------------
(* Chunk geometry: the worker's generateChunkGeometry(request) and           *)
(* ChunkManager.generateChunkGeometry(chunkX, chunkZ). Buffers are lists of  *)
(* numbers as the code pushes them. A grid coordinate x of resolution r      *)
(* stands at localX = (x / r - 0.5) * chunkSize; lengths are kept multiplied *)
(* by 2 * r so that they are integers: (2 * x - r) * chunkSize. Heights,     *)
(* moisture and temperature are in tenths.                                   *)

WATER == 0
SAND == 1
FIELDS == 2
FOREST == 3
ROCKS == 4

(* biomeColors of the worker, in thousandths *)
biomeColors(biome) ==
    CASE biome = WATER -> <<231, 512, 965>>
      [] biome = SAND -> <<992, 906, 541>>
      [] biome = FIELDS -> <<518, 800, 90>>
      [] biome = FOREST -> <<302, 486, 59>>
      [] biome = ROCKS -> <<659, 639, 620>>

(* what the noise of generator gen gives at a world coordinate: the height after the *)
(* octaves and the large-scale features, and the two samples the biome is read from  *)
SampleHeight(gen, worldX, worldZ) == ((gen * 37 + worldX * 11 + worldZ * 17) % 260) - 30

SampleMoisture(gen, worldX, worldZ) == ((gen * 13 + worldX * 7 + worldZ * 3) % 21) - 10

SampleTemperature(gen, worldX, worldZ) == ((gen * 5 + worldX * 3 + worldZ * 7) % 21) - 10

(* the chain with the forest test moved before the rocks test *)
BiomeOf_ForestFirst(height, moisture, temperature) ==
    IF height < 0 THEN WATER
    ELSE IF height < 10 \/ (moisture > 3 /\ temperature > 1 /\ height < 30) THEN SAND
    ELSE IF moisture > -1 /\ temperature > -5 /\ height > 40 /\ height < 180 THEN FOREST
    ELSE IF height > 150 THEN ROCKS
    ELSE FIELDS

(* the if / else-if chain on height, moisture and temperature both paths use *)
BiomeOf(height, moisture, temperature) ==
    IF height < 0 THEN WATER
    ELSE IF height < 10 \/ (moisture > 3 /\ temperature > 1 /\ height < 30) THEN SAND
    ELSE IF height > 150 THEN ROCKS
    ELSE IF moisture > -1 /\ temperature > -5 /\ height > 40 /\ height < 180 THEN FOREST
    ELSE FIELDS

(* BiomeType of the biome manager: the tags are strings on the synchronous path *)
BiomeTypeValue(biome) ==
    CASE biome = WATER -> "water"
      [] biome = SAND -> "sand"
      [] biome = FIELDS -> "fields"
      [] biome = FOREST -> "forest"
      [] biome = ROCKS -> "rocks"

determineBiome(gen, x, z, height) ==
    BiomeTypeValue(BiomeOf(height, SampleMoisture(gen, x, z), SampleTemperature(gen, x, z)))

(* BiomeManager.getBiomeColor(biome, height): the base colour blended towards the *)
(* variation the height selects; a channel is kept as <<channel, biome, variation>> *)
getBiomeColor(biome, height) ==
    LET heightFactor == Max(0, Min(400, height + 100))
        variationIndex == Min((heightFactor * 3) \div 400, 2)
    IN [r |-> <<"r", biome, variationIndex>>,
        g |-> <<"g", biome, variationIndex>>,
        b |-> <<"b", biome, variationIndex>>]

(* one triangle of a grid cell only *)
QuadIndices_OneTriangle(chunkResolution, z, x) ==
    LET a == z * (chunkResolution + 1) + x
        b == z * (chunkResolution + 1) + x + 1
        c == (z + 1) * (chunkResolution + 1) + x
    IN <<a, c, b>>

(* indices.push(a, c, b); indices.push(b, c, d) *)
QuadIndices(chunkResolution, z, x) ==
    LET a == z * (chunkResolution + 1) + x
        b == z * (chunkResolution + 1) + x + 1
        c == (z + 1) * (chunkResolution + 1) + x
        d == (z + 1) * (chunkResolution + 1) + x + 1
    IN <<a, c, b, b, c, d>>

(* for (let x = 0; x < chunkResolution; x++) of the index loops, from x on *)
RECURSIVE IndexRow(_, _, _, _)
IndexRow(indices, chunkResolution, z, x) ==
    IF x < chunkResolution
    THEN CHOOSE r \in {IndexRow(i1, chunkResolution, z, x + 1) :
                          i1 \in {indices \o QuadIndices(chunkResolution, z, x)}} : TRUE
    ELSE indices

(* for (let z = 0; z < chunkResolution; z++) of the index loops, from z on *)
RECURSIVE IndexRows(_, _, _)
IndexRows(indices, chunkResolution, z) ==
    IF z < chunkResolution
    THEN CHOOSE r \in {IndexRows(i1, chunkResolution, z + 1) :
                          i1 \in {IndexRow(indices, chunkResolution, z, 0)}} : TRUE
    ELSE indices

(* the worker's vertex of grid point (x, z): position, biome and colour pushed *)
WorkerVertex(g, request, z, x) ==
    LET localX == (2 * x - request.chunkResolution) * request.chunkSize
        localZ == (2 * z - request.chunkResolution) * request.chunkSize
        worldX == localX + 2 * request.chunkResolution * request.chunkX * request.chunkSize
        worldZ == localZ + 2 * request.chunkResolution * request.chunkZ * request.chunkSize
        seed == request.heightGeneratorConfig.seed
        height == SampleHeight(seed, worldX, worldZ)
        biome == BiomeOf(height, SampleMoisture(seed, worldX, worldZ),
                         SampleTemperature(seed, worldX, worldZ))
    IN [g EXCEPT !.vertices = @ \o <<localX, height, localZ>>,
                 !.biomes = Append(@, biome),
                 !.colors = @ \o biomeColors(biome)]

RECURSIVE WorkerVertexRow(_, _, _, _)
WorkerVertexRow(g, request, z, x) ==
    IF x <= request.chunkResolution
    THEN CHOOSE r \in {WorkerVertexRow(g1, request, z, x + 1) :
                          g1 \in {WorkerVertex(g, request, z, x)}} : TRUE
    ELSE g

RECURSIVE WorkerVertexRows(_, _, _)
WorkerVertexRows(g, request, z) ==
    IF z <= request.chunkResolution
    THEN CHOOSE r \in {WorkerVertexRows(g1, request, z + 1) :
                          g1 \in {WorkerVertexRow(g, request, z, 0)}} : TRUE
    ELSE g

(* a request whose heightGeneratorConfig is missing *)
NoConfig == [undefined |-> TRUE]

GeometryRequest(id, x, z, resolution, config) ==
    [id |-> id, chunkX |-> x, chunkZ |-> z, chunkSize |-> chunkSize,
     chunkResolution |-> resolution, heightGeneratorConfig |-> config]

(* the worker's generateChunkGeometry(request): heightGeneratorConfig.seed of a request *)
(* without heightGeneratorConfig throws, and the catch block answers with empty buffers *)
generateChunkGeometry(request) ==
    IF "seed" \notin DOMAIN request.heightGeneratorConfig
    THEN [id |-> request.id, chunkX |-> request.chunkX, chunkZ |-> request.chunkZ,
          vertices |-> <<>>, indices |-> <<>>, colors |-> <<>>, biomes |-> <<>>,
          success |-> FALSE]
    ELSE LET g == WorkerVertexRows([vertices |-> <<>>, biomes |-> <<>>, colors |-> <<>>],
                                   request, 0)
         IN [id |-> request.id, chunkX |-> request.chunkX, chunkZ |-> request.chunkZ,
             vertices |-> g.vertices,
             indices |-> IndexRows(<<>>, request.chunkResolution, 0),
             colors |-> g.colors, biomes |-> g.biomes, success |-> TRUE]

(* HeightGenerator.generateHeight(x, z) of the generator the chunk manager holds *)
generateHeight(gen, x, z) == SampleHeight(gen, x, z)

(* the chunk manager's vertex of grid point (x, z) *)
ManagerVertex(s, g, chunkX, chunkZ, z, x) ==
    LET localX == (2 * x - s.cm.chunkResolution) * chunkSize
        localZ == (2 * z - s.cm.chunkResolution) * chunkSize
        worldX == localX + 2 * s.cm.chunkResolution * chunkX * chunkSize
        worldZ == localZ + 2 * s.cm.chunkResolution * chunkZ * chunkSize
        height == generateHeight(s.tg.heightGenerator, worldX, worldZ)
        biome == determineBiome(s.tg.heightGenerator, worldX, worldZ, height)
        color == getBiomeColor(biome, height)
    IN [g EXCEPT !.vertices = @ \o <<localX, height, localZ>>,
                 !.colors = @ \o <<color.r, color.g, color.b>>]

RECURSIVE ManagerVertexRow(_, _, _, _, _, _)
ManagerVertexRow(s, g, chunkX, chunkZ, z, x) ==
    IF x <= s.cm.chunkResolution
    THEN CHOOSE r \in {ManagerVertexRow(s, g1, chunkX, chunkZ, z, x + 1) :
                          g1 \in {ManagerVertex(s, g, chunkX, chunkZ, z, x)}} : TRUE
    ELSE g

RECURSIVE ManagerVertexRows(_, _, _, _, _)
ManagerVertexRows(s, g, chunkX, chunkZ, z) ==
    IF z <= s.cm.chunkResolution
    THEN CHOOSE r \in {ManagerVertexRows(s, g1, chunkX, chunkZ, z + 1) :
                          g1 \in {ManagerVertexRow(s, g, chunkX, chunkZ, z, 0)}} : TRUE
    ELSE g

(* ChunkManager.generateChunkGeometry(chunkX, chunkZ): empty buffers for a coordinate *)
(* that has a mesh                                                                    *)
ChunkManager_generateChunkGeometry(s, chunkX, chunkZ) ==
    IF <<chunkX, chunkZ>> \in s.cm.chunks
    THEN [vertices |-> <<>>, indices |-> <<>>, colors |-> <<>>]
    ELSE LET g == ManagerVertexRows(s, [vertices |-> <<>>, colors |-> <<>>],
                                    chunkX, chunkZ, 0)
         IN [vertices |-> g.vertices,
             indices |-> IndexRows(<<>>, s.cm.chunkResolution, 0),
             colors |-> g.colors]

----------------------------------------------------------------------------
(* The program as a state machine *)

VARIABLES sm, pool, inflight, promises, cm, raf, tg, evicted, failures, host, ev

vars == <<sm, pool, inflight, promises, cm, raf, tg, evicted, failures, host, ev>>

NoEvent(op, arg) ==
    [op |-> op, arg |-> arg, posted |-> <<>>, settled |-> <<>>, ret |-> 0,
     dispatched |-> <<>>, applied |-> <<>>, discarded |-> <<>>, failed |-> <<>>,
     consumed |-> <<>>, meshed |-> {}, unmeshed |-> {}, evicted |-> {}, centered |-> FALSE,
     requested |-> {}]

(* the current state as a record, at the start of the task op *)
Now(op, arg) ==
    [sm |-> sm, pool |-> pool, inflight |-> inflight, promises |-> promises, cm |-> cm,
     raf |-> raf, tg |-> tg, evicted |-> evicted, failures |-> failures, host |-> host,
     micro |-> <<>>,
     ev |-> NoEvent(op, arg)]

Commit(s) ==
    /\ sm' = s.sm
    /\ pool' = s.pool
    /\ inflight' = s.inflight
    /\ promises' = s.promises
    /\ cm' = s.cm
    /\ raf' = s.raf
    /\ tg' = s.tg
    /\ evicted' = s.evicted
    /\ failures' = s.failures
    /\ host' = s.host
    /\ ev' = s.ev

WithinBounds(s) ==
    /\ Len(s.pool.taskQueue) <= MaxQueue
    /\ Len(s.raf) <= MaxMeshes
    /\ \A k \in World : s.cm.scene[k] <= MaxMeshes

(* no worker replaced or terminated, no promise pending *)
InitHost == [retired |-> {}, terminated |-> {}, unsettled |-> {}, disposed |-> FALSE]

(* the program once TerrainGenerator.initialize() and the worker system are up *)
Init ==
    /\ \E r \in RenderDistances :
          /\ sm = InitStateManager(r)
          /\ tg = [renderDistance |-> r, camera |-> <<0, 0>>]
    /\ pool = InitPool(NumWorkers)
    /\ inflight = [w \in WorkerIds |-> <<>>]
    /\ promises = <<>>
    /\ cm = [chunks |-> {}, scene |-> [k \in World |-> 0], isWorkerSystemEnabled |-> TRUE,
             processingInterval |-> TRUE, lastCameraUpdate |-> 0]
    /\ raf = <<>>
    /\ evicted = {}
    /\ failures = 0
    /\ host = InitHost
    /\ ev = NoEvent("task", <<>>)

(* what Spec keeps of a task's record from one task to the next: the orchestrator's part; *)
(* in Spec a worker the pool replaced raises no further event                             *)
Quiet(s) ==
    [s EXCEPT !.host.retired = {},
              !.ev = [NoEvent("task", <<>>) EXCEPT !.discarded = s.ev.discarded,
                                                  !.failed = s.ev.failed,
                                                  !.meshed = s.ev.meshed,
                                                  !.evicted = s.ev.evicted,
                                                  !.centered = s.ev.centered]]

(* one animation frame: animate() runs TerrainGenerator.update with the camera in chunk c, *)
(* then the mesh callbacks registered since the previous frame                             *)
FrameTask(c, elapsed) ==
    RunAnimationFrameCallbacks(
        RunMicrotasks(TerrainGenerator_update(Now("Frame", c), c[1], c[2], elapsed)))

Frame(c, elapsed) ==
    /\ c \in CamChunks
    /\ LET s == FrameTask(c, elapsed)
       IN WithinBounds(s) /\ Commit(Quiet(s))

(* the 150 ms interval: processChunkQueue(), mesh building throwing for the keys in throws *)
TickTask(throws) == processChunkQueue(Now("Tick", throws), throws)

Tick(throws) ==
    /\ cm.processingInterval
    /\ throws \subseteq Range(sm.readyChunks)
    /\ LET s == TickTask(throws)
       IN WithinBounds(s) /\ Commit(Quiet(s))

(* worker w answers the request it was posted first *)
WorkerMessageTask(w, success) ==
    LET request == Head(inflight[w])
        s0 == [Now("WorkerMessage", <<w, request.id, success>>) EXCEPT !.inflight[w] = Tail(@)]
    IN RunMicrotasks(handleWorkerMessage(s0, w, Result(request, success)))

WorkerMessage(w, success) ==
    /\ inflight[w] # <<>>
    /\ LET s == WorkerMessageTask(w, success)
       IN WithinBounds(s) /\ Commit(Quiet(s))

(* worker w raises an error event; it answers nothing afterwards *)
WorkerErrorTask(w) ==
    RunMicrotasks(handleWorkerError([Now("WorkerError", w) EXCEPT !.inflight[w] = <<>>], w))

WorkerError(w) ==
    /\ w \in Range(pool.workers)
    /\ LET s == WorkerErrorTask(w)
       IN WithinBounds(s) /\ Commit(Quiet(s))

(* the 30 s interval of the state manager *)
Cleanup(old) ==
    /\ old \in 1..Len(sm.accessOrder)
    /\ LET s == [Now("Cleanup", old) EXCEPT !.sm = cleanup(@, old)]
       IN Commit(Quiet(s))

(* the render distance slider *)
UpdateRenderDistance(r) ==
    /\ r \in RenderDistances
    /\ LET s == updateRenderDistance(Now("UpdateRenderDistance", r), r)
       IN Commit(Quiet(s))

Next ==
    \/ \E c \in CamChunks, elapsed \in BOOLEAN : Frame(c, elapsed)
    \/ \E throws \in SUBSET World : Tick(throws)
    \/ \E w \in WorkerIds, success \in BOOLEAN : WorkerMessage(w, success)
    \/ \E w \in WorkerIds : WorkerError(w)
    \/ \E old \in 1..Cardinality(World) : Cleanup(old)
    \/ \E r \in RenderDistances : UpdateRenderDistance(r)

Spec == Init /\ [][Next]_vars

----------------------------------------------------------------------------
(* The worker pool on its own, with any caller: requests for the chunks of   *)
(* PoolChunks are submitted and cancelled around the centres of PoolChunks.  *)

PoolChunks == {<<0, 0>>, <<2, 0>>}

PoolDistances == {0, 1}

InitPoolOnly ==
    /\ sm = InitStateManager(0)
    /\ tg = [renderDistance |-> 0, camera |-> <<0, 0>>]
    /\ pool = InitPool(PoolWorkers)
    /\ inflight = [w \in WorkerIds |-> <<>>]
    /\ promises = <<>>
    /\ cm = [chunks |-> {}, scene |-> [k \in World |-> 0], isWorkerSystemEnabled |-> TRUE,
             processingInterval |-> FALSE, lastCameraUpdate |-> 0]
    /\ raf = <<>>
    /\ evicted = {}
    /\ failures = 0
    /\ host = InitHost
    /\ ev = NoEvent("task", <<>>)

(* workerPool.generateChunk(request) for the chunk c, under an id no held request carries *)
GenerateChunk(c) ==
    /\ c \in PoolChunks
    /\ LET s0 == Now("generateChunk", NewGenerationId(Now("generateChunk", <<>>), c))
           s == RunMicrotasks(ChunkWorkerPool_generateChunk(s0, Request(s0.ev.arg, c[1], c[2])))
       IN WithinBounds(s) /\ Commit(s)

(* workerPool.cancelOutOfRangeTasks(c.x, c.z, d) *)
CancelOutOfRangeTasks(c, d) ==
    /\ c \in PoolChunks
    /\ d \in PoolDistances
    /\ LET s == RunMicrotasks(cancelOutOfRangeTasks(Now("cancelOutOfRangeTasks", <<c, d>>),
                                                    c[1], c[2], d))
       IN Commit(s)

(* worker.onmessage *)
PoolWorkerMessage(w, success) ==
    /\ inflight[w] # <<>>
    /\ LET s == WorkerMessageTask(w, success)
       IN WithinBounds(s) /\ Commit(s)

(* worker.onerror; in SpecPool a worker the pool replaced raises no further event *)
PoolWorkerError(w) ==
    /\ w \in Range(pool.workers)
    /\ LET s == WorkerErrorTask(w)
       IN WithinBounds(s) /\ Commit([s EXCEPT !.host.retired = {}])

NextPool ==
    \/ \E c \in PoolChunks : GenerateChunk(c)
    \/ \E c \in PoolChunks, d \in PoolDistances : CancelOutOfRangeTasks(c, d)
    \/ \E w \in WorkerIds, success \in BOOLEAN : PoolWorkerMessage(w, success)
    \/ \E w \in WorkerIds : PoolWorkerError(w)

SpecPool == InitPoolOnly /\ [][NextPool]_vars

----------------------------------------------------------------------------
(* The worker pool from initialize() to dispose(): the workers it replaces   *)
(* are followed, up to MaxRetired of them at a time.                         *)

(* worker.onerror of a worker of the pool *)
FirstWorkerError(w) ==
    /\ w \in Range(pool.workers)
    /\ Cardinality(host.retired) < MaxRetired
    /\ FreshWorkers(Now("WorkerError", w), w) # {}
    /\ LET s == WorkerErrorTask(w)
       IN WithinBounds(s) /\ Commit(s)

(* worker.onerror of a worker the pool has replaced: it was not terminated and its *)
(* handlers are still attached                                                     *)
RetiredWorkerError(w) ==
    /\ w \in host.retired
    /\ Len(pool.workers) <= PoolWorkers
    /\ FreshWorkers(Now("RetiredWorkerError", w), w) # {}
    /\ LET s == RunMicrotasks(handleWorkerError(Now("RetiredWorkerError", w), w))
       IN WithinBounds(s) /\ Commit(s)

(* workerPool.dispose() *)
PoolDispose ==
    /\ ~host.disposed
    /\ LET s == RunMicrotasks(dispose(Now("dispose", <<>>)))
       IN Commit(s)

NextPoolLife ==
    \/ \E c \in PoolChunks : GenerateChunk(c)
    \/ \E w \in WorkerIds, success \in BOOLEAN : PoolWorkerMessage(w, success)
    \/ \E w \in WorkerIds : FirstWorkerError(w)
    \/ \E w \in WorkerIds : RetiredWorkerError(w)
    \/ PoolDispose

SpecPoolLife == InitPoolOnly /\ [][NextPoolLife]_vars

(* The pool from initialize() on with workers that answer: a worker that holds a request *)
(* answers it, with success or not, unless it raises an error or is terminated first.    *)

(* worker.onmessage of worker w, whatever the answer *)
AnswerPosted(w) ==
    /\ inflight[w] # <<>>
    /\ \E success \in BOOLEAN :
          \E s \in {WorkerMessageTask(w, success)} : WithinBounds(s) /\ Commit(s)

SpecPoolFair ==
    /\ InitPoolOnly
    /\ [][NextPoolLife]_vars
    /\ \A w \in WorkerIds : WF_vars(AnswerPosted(w))

----------------------------------------------------------------------------
(* The program when workerPool.initialize() fails: from the ChunkManager     *)
(* constructor, whose initializeWorkerSystem() call ends in its catch block  *)
(* before any other task runs.                                               *)

InitFallback ==
    /\ sm = InitStateManager(initialRenderRadius)
    /\ \E r \in RenderDistances : tg = [renderDistance |-> r, camera |-> <<0, 0>>]
    /\ pool = InitPool(0)
    /\ inflight = [w \in WorkerIds |-> <<>>]
    /\ promises = <<>>
    /\ cm = [chunks |-> {}, scene |-> [k \in World |-> 0], isWorkerSystemEnabled |-> TRUE,
             processingInterval |-> FALSE, lastCameraUpdate |-> 0]
    /\ raf = <<>>
    /\ evicted = {}
    /\ failures = 0
    /\ host = InitHost
    /\ ev = NoEvent("task", <<>>)

(* initializeWorkerSystem() failing after created workers were registered *)
InitializeFails(created) ==
    /\ cm.isWorkerSystemEnabled
    /\ ~cm.processingInterval
    /\ created \in 0..(NumWorkers - 1)
    /\ Commit(Quiet(initializeWorkerSystem(Now("initializeWorkerSystem", created),
                                           created, FALSE)))

(* TerrainGenerator.initialize(): chunkManager.setRenderRadius(renderDistance), and the *)
(* render distance slider later on                                                     *)
FallbackRenderDistance(r) ==
    /\ ~cm.isWorkerSystemEnabled
    /\ UpdateRenderDistance(r)

(* TerrainGenerator.generateInitialChunks() *)
GenerateInitialChunks ==
    /\ ~cm.isWorkerSystemEnabled
    /\ LET s == generateInitialChunks(Now("generateInitialChunks", <<>>))
       IN WithinBounds(s) /\ Commit(Quiet(s))

(* an animation frame with the camera in chunk c *)
FallbackFrame(c, elapsed) ==
    /\ ~cm.isWorkerSystemEnabled
    /\ c \in FallbackChunks
    /\ LET s == FrameTask(c, elapsed)
       IN WithinBounds(s) /\ Commit(Quiet(s))

NextFallback ==
    \/ \E created \in 0..NumWorkers : InitializeFails(created)
    \/ \E r \in RenderDistances : FallbackRenderDistance(r)
    \/ GenerateInitialChunks
    \/ \E c \in FallbackChunks, elapsed \in BOOLEAN : FallbackFrame(c, elapsed)

SpecFallback == InitFallback /\ [][NextFallback]_vars

----------------------------------------------------------------------------
(* TerrainGenerator alone: which coordinates the initial burst and update()  *)
(* pass to the chunk manager, for each render distance and viewpoint chunk,  *)
(* with the worker system on (chunks tracked as PENDING) or off (meshes      *)
(* built on the spot). No tick and no worker runs.                           *)

CircleDistances == {0, 1, 2, 6}

CircleCenters == {<<0, 0>>, <<1, 0>>, <<-2, 3>>, <<3, 3>>}

CircleWorld == {<<x, z>> : x \in (-CircleSpan)..CircleSpan, z \in (-CircleSpan)..CircleSpan}

InitCircle ==
    /\ \E r \in CircleDistances :
          /\ sm = InitStateManager(r)
          /\ tg = [renderDistance |-> r, camera |-> <<0, 0>>]
    /\ \E enabled \in BOOLEAN :
          /\ pool = InitPool(IF enabled THEN NumWorkers ELSE 0)
          /\ cm = [chunks |-> {}, scene |-> [k \in CircleWorld |-> 0],
                   isWorkerSystemEnabled |-> enabled, processingInterval |-> enabled,
                   lastCameraUpdate |-> 0]
    /\ inflight = [w \in WorkerIds |-> <<>>]
    /\ promises = <<>>
    /\ raf = <<>>
    /\ evicted = {}
    /\ failures = 0
    /\ host = InitHost
    /\ ev = NoEvent("task", <<>>)

(* generateInitialChunks(), called once before the first frame *)
CircleInitialChunks ==
    /\ DOMAIN sm.chunks = {} /\ cm.chunks = {} /\ cm.lastCameraUpdate = 0
    /\ Commit(generateInitialChunks(Now("generateInitialChunks", <<0, 0>>)))

CircleInitialChunksEach ==
    /\ DOMAIN sm.chunks = {} /\ cm.chunks = {} /\ cm.lastCameraUpdate = 0
    /\ Commit(generateInitialChunksEach(Now("generateInitialChunksEach", <<0, 0>>)))

(* update(cameraPosition) with the camera in chunk c; the camera is followed until it *)
(* has left chunk (0, 0)                                                             *)
CircleUpdate(c, elapsed) ==
    /\ c \in CircleCenters
    /\ tg.camera = <<0, 0>>
    /\ Commit(TerrainGenerator_update(Now("update", c), c[1], c[2], elapsed))

NextCircle ==
    \/ CircleInitialChunks
    \/ CircleInitialChunksEach
    \/ \E c \in CircleCenters, elapsed \in BOOLEAN : CircleUpdate(c, elapsed)

SpecCircle == InitCircle /\ [][NextCircle]_vars

----------------------------------------------------------------------------
(* The two geometry builders alone, for each chunkResolution, noise          *)
(* generator and chunk coordinate; ev keeps the call and what it returned.   *)

Resolutions == 1..MaxResolution

GeoSeeds == {7, 42}

GeoChunks == {<<0, 0>>, <<-1, 2>>}

InitGeometry ==
    /\ sm = InitStateManager(initialRenderRadius)
    /\ \E gen \in GeoSeeds :
          tg = [renderDistance |-> 0, camera |-> <<0, 0>>, heightGenerator |-> gen]
    /\ pool = InitPool(0)
    /\ inflight = [w \in WorkerIds |-> <<>>]
    /\ promises = <<>>
    /\ \E resolution \in Resolutions :
          cm = [chunks |-> {}, scene |-> [k \in GeoChunks |-> 0],
                isWorkerSystemEnabled |-> FALSE, processingInterval |-> FALSE,
                lastCameraUpdate |-> 0, chunkResolution |-> resolution]
    /\ raf = <<>>
    /\ evicted = {}
    /\ failures = 0
    /\ host = InitHost
    /\ ev = [op |-> "task", arg |-> <<>>, result |-> Null]

(* a worker runs generateChunkGeometry on the request it was sent *)
WorkerGeometry(c, seed, wellFormed) ==
    LET request == GeometryRequest(<<c, 0>>, c[1], c[2], cm.chunkResolution,
                                   IF wellFormed THEN [seed |-> seed] ELSE NoConfig)
    IN /\ ev' = [op |-> "generateChunkGeometry", arg |-> request,
                 result |-> generateChunkGeometry(request)]
       /\ UNCHANGED <<sm, pool, inflight, promises, cm, raf, tg, evicted, failures, host>>

(* generateChunkGeometry(chunkX, chunkZ) of the chunk manager *)
ManagerGeometry(c) ==
    /\ ev' = [op |-> "ChunkManager.generateChunkGeometry", arg |-> c,
              result |-> ChunkManager_generateChunkGeometry(Now("task", c), c[1], c[2])]
    /\ UNCHANGED <<sm, pool, inflight, promises, cm, raf, tg, evicted, failures, host>>

(* createChunkMesh(chunkX, chunkZ): the coordinate gets its mesh *)
CreateChunkMesh(c) ==
    /\ c \notin cm.chunks
    /\ Commit([createChunkMesh(Now("task", c), c) EXCEPT
                  !.ev = [op |-> "createChunkMesh", arg |-> c, result |-> Null]])

NextGeometry ==
    \/ \E c \in GeoChunks, seed \in GeoSeeds, wellFormed \in BOOLEAN :
          WorkerGeometry(c, seed, wellFormed)
    \/ \E c \in GeoChunks : ManagerGeometry(c)
    \/ \E c \in GeoChunks : CreateChunkMesh(c)

SpecGeometry == InitGeometry /\ [][NextGeometry]_vars

----------------------------------------------------------------------------
(* The generation slots: render distance 1 around the chunks of SlotCenters, *)
(* a pool of NumWorkers workers, the interval, the frames and the workers'  *)
(* answers. Five chunks are wanted at once, more than the two slots.         *)

SlotCenters == {<<0, 0>>}

SlotWorld ==
    UNION {{<<c[1] + o[1], c[2] + o[2]>> : o \in Range(CircleOffsets(1))} : c \in SlotCenters}

SlotsWithinBounds(s) ==
    /\ Len(s.pool.taskQueue) <= MaxSlotQueue
    /\ Len(s.raf) <= MaxMeshes
    /\ \A k \in SlotWorld : s.cm.scene[k] <= MaxMeshes

InitSlots ==
    /\ sm = InitStateManager(1)
    /\ tg = [renderDistance |-> 1, camera |-> <<0, 0>>]
    /\ pool = InitPool(NumWorkers)
    /\ inflight = [w \in WorkerIds |-> <<>>]
    /\ promises = <<>>
    /\ cm = [chunks |-> {}, scene |-> [k \in SlotWorld |-> 0], isWorkerSystemEnabled |-> TRUE,
             processingInterval |-> TRUE, lastCameraUpdate |-> 0]
    /\ raf = <<>>
    /\ evicted = {}
    /\ failures = 0
    /\ host = InitHost
    /\ ev = NoEvent("task", <<>>)

(* one animation frame with the camera in chunk c *)
SlotsFrame(c, elapsed) ==
    /\ c \in SlotCenters
    /\ LET s == FrameTask(c, elapsed)
       IN SlotsWithinBounds(s) /\ Commit(Quiet(s))

(* the 150 ms interval: processChunkQueue() *)
SlotsTick ==
    /\ cm.processingInterval
    /\ LET s == TickTask({})
       IN SlotsWithinBounds(s) /\ Commit(Quiet(s))

(* worker w answers the request it was posted first with success: true *)
SlotsWorkerMessage(w) ==
    /\ inflight[w] # <<>>
    /\ LET s == WorkerMessageTask(w, TRUE)
       IN SlotsWithinBounds(s) /\ Commit(Quiet(s))

(* worker w answers the request it was posted first with success: false, which rejects *)
(* the request's promise; at most MaxFailures times                                    *)
SlotsFailedMessage(w) ==
    /\ failures < MaxFailures
    /\ inflight[w] # <<>>
    /\ LET s == WorkerMessageTask(w, FALSE)
       IN SlotsWithinBounds(s) /\ Commit(Quiet([s EXCEPT !.failures = @ + 1]))

NextSlots ==
    \/ \E c \in SlotCenters, elapsed \in BOOLEAN : SlotsFrame(c, elapsed)
    \/ SlotsTick
    \/ \E w \in WorkerIds : SlotsWorkerMessage(w)
    \/ \E w \in WorkerIds : SlotsFailedMessage(w)

SpecSlots == InitSlots /\ [][NextSlots]_vars

----------------------------------------------------------------------------
(* The program with its timers, frames and workers scheduled fairly: the     *)
(* interval keeps ticking, animation frames keep coming, every worker        *)
(* answers what it was posted, and workers fail at most MaxFailures times    *)
(* (a failed answer or an error event).                                      *)
(*                                                                           *)
(* Weak fairness of an action A is stated in its expanded form               *)
(*     []<>~(A can change the state) \/ []<><<A>>_vars                       *)
(* with "A can change the state" computed from the task's outcome, which is  *)
(* what ENABLED <<A>>_vars means for these actions.                          *)

(* worker w answers its request with success: false *)
FailedMessage(w) ==
    /\ failures < MaxFailures
    /\ inflight[w] # <<>>
    /\ LET s == WorkerMessageTask(w, FALSE)
       IN WithinBounds(s) /\ Commit(Quiet([s EXCEPT !.failures = @ + 1]))

(* worker w raises an error event *)
FailedWorker(w) ==
    /\ failures < MaxFailures
    /\ w \in Range(pool.workers)
    /\ LET s == WorkerErrorTask(w)
       IN WithinBounds(s) /\ Commit(Quiet([s EXCEPT !.failures = @ + 1]))

NextLive ==
    \/ \E c \in CamChunks, elapsed \in BOOLEAN : Frame(c, elapsed)
    \/ Tick({})
    \/ \E w \in WorkerIds : WorkerMessage(w, TRUE)
    \/ \E w \in WorkerIds : FailedMessage(w)
    \/ \E w \in WorkerIds : FailedWorker(w)

(* committing the outcome s of a task would change the state *)
Changes(s) ==
    LET q == Quiet(s)
    IN <<q.sm, q.pool, q.inflight, q.promises, q.cm, q.raf, q.tg, q.evicted, q.failures,
         q.host, q.ev>>
           # vars

TickReady ==
    /\ cm.processingInterval
    /\ WithinBounds(TickTask({}))
    /\ Changes(TickTask({}))

FrameReady ==
    \E c \in CamChunks, elapsed \in BOOLEAN :
        WithinBounds(FrameTask(c, elapsed)) /\ Changes(FrameTask(c, elapsed))

AnswerReady(w) ==
    /\ inflight[w] # <<>>
    /\ WithinBounds(WorkerMessageTask(w, TRUE))
    /\ Changes(WorkerMessageTask(w, TRUE))

TickFair == []<>(~TickReady) \/ []<><<Tick({})>>_vars

FrameFair ==
    []<>(~FrameReady) \/ []<><<\E c \in CamChunks, elapsed \in BOOLEAN : Frame(c, elapsed)>>_vars

AnswerFair == \A w \in WorkerIds : []<>(~AnswerReady(w)) \/ []<><<WorkerMessage(w, TRUE)>>_vars

SpecLive == Init /\ [][NextLive]_vars /\ TickFair /\ FrameFair /\ AnswerFair

----------------------------------------------------------------------------
(* Properties *)

(* the state-indexed collections of the manager m that hold key *)
CollectionsOf(m, key) ==
    (IF key \in Range(m.pendingChunks) THEN {PENDING} ELSE {})
    \cup (IF key \in DOMAIN m.generatingChunks THEN {GENERATING} ELSE {})
    \cup (IF key \in Range(m.readyChunks) THEN {READY} ELSE {})
    \cup (IF key \in m.renderedChunks THEN {RENDERED} ELSE {})

(* C1: in every reachable state each tracked coordinate is in exactly one of the   *)
(* pending / generating / ready / rendered collections, the one of its             *)
(* ChunkInfo.state, and the four counts of getStats() add up to the total.         *)
C1_ExactlyOneCollection ==
    /\ \A key \in DOMAIN sm.chunks : CollectionsOf(sm, key) = {sm.chunks[key].state}
    /\ LET stats == getStats(sm)
       IN stats.pending + stats.generating + stats.ready + stats.rendered = stats.total

(* C2: a coordinate that updateCenter or setRenderRadius evicted, and that was not *)
(* added again, gets no mesh in the scene or the render map: the meshes the latest *)
(* task added are of coordinates outside the evicted set.                          *)
C2_NoMeshForEvicted == ev.meshed \cap evicted = {}

(* the centres and radii updateCenter and setRenderRadius are tried with *)
EvictionCenters == {<<0, 0>>, <<1, 0>>, <<2, 0>>, <<1, 1>>}

EvictionRadii == {0, 1}

(* n is the manager m after an eviction pass: nothing tracked beyond renderRadius + 1 of  *)
(* the centre of n, every chunk of m within it kept with its state and collection, every  *)
(* other chunk of m gone from the map and the collections                                 *)
EvictionPost(m, n) ==
    /\ \A k \in DOMAIN n.chunks :
          ~OutOfRange(n.chunks[k].x, n.chunks[k].z, n.centerX, n.centerZ, n.renderRadius + 1)
    /\ \A k \in DOMAIN m.chunks :
          IF OutOfRange(m.chunks[k].x, m.chunks[k].z, n.centerX, n.centerZ, n.renderRadius + 1)
          THEN /\ k \notin DOMAIN n.chunks
               /\ CollectionsOf(n, k) = {}
               /\ m.chunks[k].state = GENERATING =>
                     LET c == cancelGeneratingChunk(m, m.chunks[k].x, m.chunks[k].z)
                     IN c.chunks[k].state = REMOVING /\ k \notin DOMAIN c.generatingChunks
          ELSE /\ k \in DOMAIN n.chunks
               /\ n.chunks[k].state = m.chunks[k].state
               /\ CollectionsOf(n, k) = CollectionsOf(m, k)

(* C3: right after updateCenter(cx, cz), and after setRenderRadius(r), no tracked chunk   *)
(* is farther than renderRadius + 1 from the centre, every chunk within that distance is  *)
(* still tracked in its state, and every evicted chunk is gone from the map and the four  *)
(* collections: checked for the manager of every reachable state and every input.         *)
C3_EvictionExact ==
    /\ \A c \in EvictionCenters : EvictionPost(sm, updateCenter(sm, c[1], c[2]))
    /\ \A r \in EvictionRadii : EvictionPost(sm, ChunkStateManager_setRenderRadius(sm, r))

(* an accepted camera update evicted a chunk and kept another one that was past PENDING *)
C3_Witness ==
    /\ ev.centered
    /\ ev.evicted # {}
    /\ \E k \in DOMAIN sm.chunks : sm.chunks[k].state # PENDING

(* the request id is still queued in the pool and a startNewGenerations invocation awaits it *)
Awaited(id) ==
    /\ id \in DOMAIN promises
    /\ \E i \in DOMAIN pool.taskQueue : pool.taskQueue[i].request.id = id

(* C4: a successful worker result delivered for a chunk that is untracked or not          *)
(* GENERATING is dropped: the chunk's entry and collections stay as they were (the whole  *)
(* manager when the invocation has no further chunk to dispatch), no entry is created     *)
(* and no mesh is built or scheduled: checked for every delivery possible in a reachable  *)
(* state.                                                                                 *)
C4_LateResultDiscarded ==
    \A w \in WorkerIds :
        (inflight[w] # <<>> /\ Awaited(Head(inflight[w]).id)) =>
            LET co == promises[Head(inflight[w]).id]
                k == co.key
                s == WorkerMessageTask(w, TRUE)
            IN getChunkState(sm, k[1], k[2]) # GENERATING =>
                  /\ (k \in DOMAIN s.sm.chunks) = (k \in DOMAIN sm.chunks)
                  /\ k \in DOMAIN sm.chunks => s.sm.chunks[k] = sm.chunks[k]
                  /\ CollectionsOf(s.sm, k) = CollectionsOf(sm, k)
                  /\ co.rest = <<>> => s.sm = sm
                  /\ s.cm = cm
                  /\ s.raf = raf

(* a result has just been dropped for a chunk that is tracked again *)
C4_Witness ==
    \E i \in DOMAIN ev.discarded : ev.discarded[i] \in DOMAIN sm.chunks

(* the queue positions cancelOutOfRangeTasks(c.x, c.z, d) is to reject: waiting requests out of range *)
WaitingOutOfRange(queue, c, d) ==
    {i \in DOMAIN queue :
        /\ queue[i].posts = 0
        /\ OutOfRange(queue[i].request.chunkX, queue[i].request.chunkZ, c[1], c[2], d)}

(* C5: cancelOutOfRangeTasks(cx, cz, d) returns the number of promises it rejects, which  *)
(* is the number of queued requests not yet posted and farther than d from (cx, cz); the  *)
(* requests within d stay queued in their order.                                          *)
C5_CancelCountsWaiting ==
    [][ev'.op = "cancelOutOfRangeTasks" =>
          LET c == ev'.arg[1]
              d == ev'.arg[2]
          IN /\ ev'.ret = Len(ev'.settled)
             /\ \A i \in DOMAIN ev'.settled : ev'.settled[i].outcome = "rejected"
             /\ ev'.ret = Cardinality(WaitingOutOfRange(pool.taskQueue, c, d))
             /\ pool'.taskQueue =
                   SelectSeq(pool.taskQueue,
                             LAMBDA t : ~OutOfRange(t.request.chunkX, t.request.chunkZ,
                                                    c[1], c[2], d))]_vars

(* C6: cancelOutOfRangeTasks neither removes nor rejects a request that has been posted   *)
(* to a worker.                                                                           *)
C6_CancelSparesPosted ==
    [][ev'.op = "cancelOutOfRangeTasks" =>
          /\ \A i \in DOMAIN pool.taskQueue :
                pool.taskQueue[i].posts > 0 => pool.taskQueue[i] \in Range(pool'.taskQueue)
          /\ \A i \in DOMAIN ev'.settled : ev'.settled[i].posts = 0]_vars

(* C7: generateChunk(request) called while a worker is idle posts that request during     *)
(* the call; a request waits only while no worker is idle; whatever is posted is the      *)
(* waiting request submitted first.                                                       *)
C7_PostedOnSubmit ==
    [][/\ (ev'.op = "generateChunk" /\ pool.availableWorkers # <<>>) =>
             \E i \in DOMAIN ev'.posted : ev'.posted[i].id = ev'.arg
       /\ pool'.availableWorkers # <<>> =>
             \A i \in DOMAIN pool'.taskQueue : pool'.taskQueue[i].posts > 0
       /\ \A i \in DOMAIN ev'.posted : ev'.posted[i].posts = 0]_vars

(* the requests of queue that no worker has been posted, in queue order *)
Waiting(queue) == SelectSeq(queue, LAMBDA t : t.posts = 0)

(* C8: each worker holds at most one unanswered request; a request is posted only to a    *)
(* worker of the idle list; a worker comes back to the idle list only in the step its     *)
(* result message arrives, and that step posts the next waiting request, if any, and      *)
(* nothing else.                                                                          *)
C8_OneRequestPerWorker ==
    [][/\ \A w \in WorkerIds : Len(inflight'[w]) <= 1
       /\ \A i \in DOMAIN ev'.posted :
             \/ ev'.posted[i].worker \in Range(pool.availableWorkers)
             \/ ev'.op = "WorkerMessage" /\ ev'.posted[i].worker = ev'.arg[1]
       /\ \A w \in Range(pool'.availableWorkers) \ Range(pool.availableWorkers) :
             \/ ev'.op = "WorkerMessage" /\ w = ev'.arg[1]
             \/ ev'.op = "WorkerError" /\ w \notin Range(pool.workers)
       /\ ev'.op = "WorkerMessage" =>
             LET answered == ev'.arg[2]
                 waiting == Waiting(SelectSeq(pool.taskQueue,
                                              LAMBDA t : t.request.id # answered))
             IN IF waiting = <<>>
                THEN ev'.posted = <<>>
                ELSE /\ Len(ev'.posted) = 1
                     /\ ev'.posted[1].id = Head(waiting).request.id]_vars

RejectionReverts(id) ==
    LET k == promises[id].key
        s == ResumeGeneration(Now("reject", id), id, "rejected",
                              [kind |-> "error", error |-> "rejected"])
    IN getChunkState(sm, k[1], k[2]) = GENERATING =>
          /\ getChunkState(s.sm, k[1], k[2]) = PENDING
          /\ k \in Range(s.sm.pendingChunks)
          /\ k \notin DOMAIN s.sm.generatingChunks

(* the chunk k has just been put back from GENERATING by a rejected generation *)
JustFailed(k) ==
    \E i \in DOMAIN ev.failed : ev.failed[i].key = k /\ ev.failed[i].from = GENERATING

(* C10: a rejected generation promise of a tracked GENERATING chunk puts the chunk back   *)
(* to PENDING; with the interval, the frames and the workers scheduled fairly and workers *)
(* failing finitely often, a chunk that failed or is GENERATING becomes RENDERED unless   *)
(* it stops being tracked: no chunk stays GENERATING for ever.                            *)
C10_FailureRetried ==
    /\ [](\A id \in DOMAIN promises : RejectionReverts(id))
    /\ \A k \in World :
          (JustFailed(k) \/ getChunkState(sm, k[1], k[2]) = GENERATING)
              ~> (getChunkState(sm, k[1], k[2]) \in {RENDERED, Null})

(* a worker has failed and the rejected generation has put a tracked GENERATING chunk *)
(* back to PENDING, in the pending collection                                        *)
C10_Witness ==
    /\ failures > 0
    /\ \E k \in DOMAIN sm.chunks :
          /\ JustFailed(k)
          /\ sm.chunks[k].state = PENDING
          /\ k \in Range(sm.pendingChunks)

(* C11: dispose() terminates every worker of the pool, leaves the workers, idle and busy  *)
(* collections and the task queue empty, and rejects every promise that was not settled   *)
(* when it was called, of a waiting request and of a posted one alike.                    *)
C11_DisposeRejectsAll ==
    [][ev'.op = "dispose" =>
          /\ Range(pool.workers) \subseteq host'.terminated
          /\ pool'.workers = <<>>
          /\ pool'.availableWorkers = <<>>
          /\ pool'.busyWorkers = {}
          /\ pool'.taskQueue = <<>>
          /\ \A w \in Range(pool.workers) : inflight'[w] = <<>>
          /\ \A id \in host.unsettled :
                \E i \in DOMAIN ev'.settled :
                    ev'.settled[i].id = id /\ ev'.settled[i].outcome = "rejected"
          /\ host'.unsettled = {}]_vars

(* dispose() has just rejected a request that was posted and one that was waiting *)
C11_Witness ==
    /\ ev.op = "dispose"
    /\ \E i, j \in DOMAIN ev.settled : ev.settled[i].posts > 0 /\ ev.settled[j].posts = 0
    /\ host.terminated # {}

(* C12: until dispose() the pool registers as many workers as it was configured with, *)
(* whatever requests, results and worker errors arrive, repeated errors of one worker *)
(* included: getStats().totalWorkers = maxWorkers.                                    *)
C12_PoolSizeFixed ==
    ~host.disposed => ChunkWorkerPool_getStats([pool |-> pool]).totalWorkers = PoolWorkers

(* C13: once initializeWorkerSystem() has failed the worker system is off and the        *)
(* processing interval is not running; the state manager tracks nothing and the pool has *)
(* no request; every generateChunk call, every generateChunks batch (the initial burst)  *)
(* and every frame leaves the coordinates it generates in the render map on return, the  *)
(* state manager and the pool as they were.                                              *)
C13_FallbackSynchronous ==
    ~cm.isWorkerSystemEnabled =>
        /\ ~cm.processingInterval
        /\ sm.chunks = <<>>
        /\ pool.taskQueue = <<>>
        /\ host.unsettled = {}
        /\ \A k \in World :
              LET s == ChunkManager_generateChunk(Now("generateChunk", k), k[1], k[2])
              IN k \in s.cm.chunks /\ s.sm = sm /\ s.pool = pool /\ s.promises = promises
        /\ LET s == generateInitialChunks(Now("generateInitialChunks", <<>>))
           IN /\ \A o \in Range(CircleOffsets(tg.renderDistance)) : o \in s.cm.chunks
              /\ s.sm = sm /\ s.pool = pool /\ s.promises = promises
        /\ \A c \in FallbackChunks, elapsed \in BOOLEAN :
              LET s == TerrainGenerator_update(Now("Frame", c), c[1], c[2], elapsed)
              IN /\ \A o \in Range(CircleOffsets(tg.renderDistance)) :
                       <<c[1] + o[1], c[2] + o[2]>> \in s.cm.chunks
                 /\ s.sm.chunks = <<>> /\ s.pool = pool /\ s.promises = promises

(* the worker system is off and a chunk built on the calling thread is in the render map *)
C13_Witness ==
    /\ ~cm.isWorkerSystemEnabled
    /\ cm.chunks # {}
    /\ sm.chunks = <<>>

(* C14: a tracked chunk carries a generationId exactly while its state is GENERATING, *)
(* and the generating collection then maps its key to that id.                        *)
C14_GenerationIdWhileGenerating ==
    \A k \in DOMAIN sm.chunks :
        /\ (sm.chunks[k].generationId # NullId) <=> (sm.chunks[k].state = GENERATING)
        /\ sm.chunks[k].state = GENERATING =>
              /\ k \in DOMAIN sm.generatingChunks
              /\ sm.generatingChunks[k] = sm.chunks[k].generationId

(* the state changes one task may make to a chunk it does not evict: the edges of the *)
(* life cycle, and READY -> PENDING -> GENERATING within one tick                     *)
AllowedChanges ==
    {<<PENDING, GENERATING>>, <<GENERATING, READY>>, <<READY, RENDERED>>,
     <<GENERATING, PENDING>>, <<READY, PENDING>>, <<READY, GENERATING>>}

(* C15: the state of a tracked chunk changes only along PENDING -> GENERATING -> READY   *)
(* -> RENDERED, GENERATING -> PENDING and READY -> PENDING, until it is evicted: a       *)
(* RENDERED chunk stays RENDERED and only a PENDING chunk is moved to GENERATING.        *)
C15_LifeCycleOrder ==
    [][\A k \in (DOMAIN sm.chunks) \cap (DOMAIN sm'.chunks) :
           k \notin ev'.evicted =>
               \/ sm'.chunks[k].state = sm.chunks[k].state
               \/ <<sm.chunks[k].state, sm'.chunks[k].state>> \in AllowedChanges]_vars

(* the coordinates addChunk is tried with *)
AddChunkInputs == World \cup {<<1, 1>>}

(* C16: addChunk(x, z) on a tracked coordinate leaves the manager as it is, whatever the *)
(* chunk's state; on an untracked one it adds exactly one entry, PENDING, with the       *)
(* priority of the current centre, in the pending collection, and changes no other       *)
(* entry; a second addChunk changes nothing more.                                        *)
C16_AddChunkOnce ==
    \A k \in AddChunkInputs :
        LET n == addChunk(sm, k[1], k[2], PENDING)
        IN /\ addChunk(n, k[1], k[2], PENDING) = n
           /\ IF k \in DOMAIN sm.chunks
              THEN n = sm
              ELSE /\ DOMAIN n.chunks = (DOMAIN sm.chunks) \cup {k}
                   /\ n.chunks[k] = [key |-> k, x |-> k[1], z |-> k[2], state |-> PENDING,
                                     generationId |-> NullId, geometryData |-> NullData,
                                     priority |-> calculatePriority(sm, k[1], k[2])]
                   /\ \A j \in DOMAIN sm.chunks :
                         n.chunks[j] = sm.chunks[j] /\ CollectionsOf(n, j) = CollectionsOf(sm, j)
                   /\ CollectionsOf(n, k) = {PENDING}
                   /\ Len(n.pendingChunks) = Len(sm.pendingChunks) + 1

(* a chunk is tracked past PENDING with its geometry while another coordinate is untracked *)
C16_Witness ==
    /\ \E k \in DOMAIN sm.chunks :
          sm.chunks[k].state \in {READY, RENDERED} /\ sm.chunks[k].geometryData # NullData
    /\ \E k \in World : k \notin DOMAIN sm.chunks

(* the coordinates within distance r of chunk c *)
InCircle(c, r) ==
    {k \in CircleWorld :
        (k[1] - c[1]) * (k[1] - c[1]) + (k[2] - c[2]) * (k[2] - c[2]) <= r * r}

BurstOps == {"generateInitialChunks", "generateInitialChunksEach"}

(* C17 as stated: for the render distances 0, 1, 2 and 6, the initial burst and *)
(* every update() request generation for exactly the coordinates with           *)
(* dx*dx + dz*dz <= R*R around the centre chunk, all of them and no other.      *)
C17_RequestsWholeCircle ==
    [][/\ ev'.op \in BurstOps => ev'.requested = InCircle(<<0, 0>>, tg.renderDistance)
       /\ ev'.op = "update" => ev'.requested = InCircle(ev'.arg, tg.renderDistance)]_vars

(* C17, amended: the initial burst requests exactly the coordinates of the     *)
(* circle around chunk (0, 0); update() requests no coordinate outside the     *)
(* circle around the camera's chunk and, inside it, exactly the coordinates    *)
(* that have no mesh in the render map when update() is called.                *)
C17_RequestsCircleWithoutMesh ==
    [][/\ ev'.op \in BurstOps => ev'.requested = InCircle(<<0, 0>>, tg.renderDistance)
       /\ ev'.op = "update" =>
              ev'.requested = InCircle(ev'.arg, tg.renderDistance) \ cm.chunks]_vars

(* an update() at render distance 6 that requested some coordinates of the circle *)
(* and skipped others, which had a mesh                                           *)
C17_Witness ==
    /\ ev.op = "update"
    /\ tg.renderDistance = 6
    /\ ev.requested # {}
    /\ ev.requested \subseteq InCircle(ev.arg, 6)
    /\ ev.requested # InCircle(ev.arg, 6)

(* the grid points of resolution r, numbered row by row from 0 *)
GridPoints(r) == 0..((r + 1) * (r + 1) - 1)

(* the four corners of grid cell number cell (row by row from 0) of resolution r *)
CellCorners(r, cell) ==
    LET z == cell \div r
        x == cell % r
    IN {z * (r + 1) + x, z * (r + 1) + x + 1, (z + 1) * (r + 1) + x, (z + 1) * (r + 1) + x + 1}

(* (r+1)^2 vertices of three coordinates, one colour of three channels per vertex, *)
(* 6 r^2 indices: six per grid cell, forming two triangles on the cell's corners   *)
BuffersFit(r, g) ==
    /\ Len(g.vertices) = 3 * (r + 1) * (r + 1)
    /\ Len(g.colors) = Len(g.vertices)
    /\ Len(g.indices) = 6 * r * r
    /\ \A i \in DOMAIN g.indices : g.indices[i] \in GridPoints(r)
    /\ \A cell \in 0..(r * r - 1) :
          /\ {g.indices[6 * cell + j] : j \in 1..3} \subseteq CellCorners(r, cell)
          /\ {g.indices[6 * cell + j] : j \in 4..6} \subseteq CellCorners(r, cell)
          /\ Cardinality({g.indices[6 * cell + j] : j \in 1..3}) = 3
          /\ Cardinality({g.indices[6 * cell + j] : j \in 4..6}) = 3

(* C18: for every resolution r >= 1, a successful build by the worker and a build *)
(* by the chunk manager for a coordinate without a mesh give (r+1)^2 vertices,    *)
(* (r+1)^2 colours aligned with the vertices, 6 r^2 indices (two triangles per    *)
(* grid cell), every index below (r+1)^2; the worker's result also has one biome  *)
(* tag per vertex, and its colour of a vertex is the colour of that tag.          *)
C18_GeometryCounts ==
    /\ (ev.op = "generateChunkGeometry" /\ ev.result.success) =>
           LET r == ev.arg.chunkResolution
           IN /\ BuffersFit(r, ev.result)
              /\ Len(ev.result.biomes) = (r + 1) * (r + 1)
              /\ \A v \in GridPoints(r) :
                    SubSeq(ev.result.colors, 3 * v + 1, 3 * v + 3)
                        = biomeColors(ev.result.biomes[v + 1])
    /\ (ev.op = "ChunkManager.generateChunkGeometry" /\ ev.arg \notin cm.chunks) =>
           BuffersFit(cm.chunkResolution, ev.result)

(* a successful worker build at the largest resolution and a biome other than the default *)
C18_Witness ==
    /\ ev.op = "generateChunkGeometry"
    /\ ev.result.success
    /\ ev.arg.chunkResolution = MaxResolution
    /\ Len(ev.result.indices) = 6 * MaxResolution * MaxResolution
    /\ \E v \in DOMAIN ev.result.biomes : ev.result.biomes[v] # FIELDS

----------------------------------------------------------------------------
(* C20: in every reachable state the number of tracked chunks whose state is *)
(* GENERATING is at most maxConcurrentGenerations                            *)

GeneratingStates == {k \in DOMAIN sm.chunks : sm.chunks[k].state = GENERATING}

C20_AtMostTwoGenerating == Cardinality(GeneratingStates) <= maxConcurrentGenerations

----------------------------------------------------------------------------
(* the chunks a tick starting in the current state selects: the first free-slot many of *)
(* the pending chunks in priority order                                                 *)
SelectedNow ==
    Slice0(getPendingChunks(sm), maxConcurrentGenerations - Cardinality(getGeneratingChunks(sm)))

(* the pool of s holds a request for the coordinate k *)
Submitted(s, k) ==
    \E i \in DOMAIN s.pool.taskQueue :
        s.pool.taskQueue[i].request.chunkX = k[1] /\ s.pool.taskQueue[i].request.chunkZ = k[2]

(* C21: a tick never waits for a worker: when the tick's task ends every chunk it selected *)
(* is GENERATING and submitted to the pool; and whichever task dispatches a chunk, a tick  *)
(* or the continuation run by a worker's answer, the chunk is PENDING when dispatched.     *)
C21_DispatchWithinTick ==
    /\ cm.processingInterval =>
          LET s == TickTask({})
          IN \A i \in DOMAIN SelectedNow :
                 /\ getChunkState(s.sm, SelectedNow[i][1], SelectedNow[i][2]) = GENERATING
                 /\ Submitted(s, SelectedNow[i])
    /\ \A w \in WorkerIds, success \in BOOLEAN :
          inflight[w] # <<>> =>
              LET s == WorkerMessageTask(w, success)
              IN \A i \in DOMAIN s.ev.dispatched :
                     getChunkState(sm, s.ev.dispatched[i][1], s.ev.dispatched[i][2]) = PENDING

----------------------------------------------------------------------------
(* the chunks whose state is GENERATING in the manager n and was not in the manager m *)
MovedToGenerating(m, n) ==
    {k \in DOMAIN n.chunks :
        /\ n.chunks[k].state = GENERATING
        /\ getChunkState(m, k[1], k[2]) # GENERATING}

(* C22: the chunks a tick moves to GENERATING are exactly the k pending chunks of highest *)
(* priority, in getPendingChunks order, with k the smaller of the number of pending       *)
(* chunks and of max(0, maxConcurrentGenerations - number of generating chunks); with no  *)
(* free capacity the tick dispatches nothing.                                             *)
C22_DispatchesTopK ==
    cm.processingInterval =>
        LET s == TickTask({})
            pendingChunks == getPendingChunks(sm)
            capacity == maxConcurrentGenerations - Cardinality(getGeneratingChunks(sm))
            k == Min(Len(pendingChunks), Max(0, capacity))
        IN /\ s.ev.dispatched = SubSeq(pendingChunks, 1, k)
           /\ MovedToGenerating(sm, s.sm) = {pendingChunks[i] : i \in 1..k}

----------------------------------------------------------------------------
(* the READY chunks, all of which hold the geometry data of a worker result *)
ReadyNow == {k \in DOMAIN sm.chunks : sm.chunks[k].state = READY}

(* the READY chunks that processReadyChunks leaves RENDERED when building throws for throws *)
RenderedBy(throws) ==
    {k \in ReadyNow :
        getChunkState(processReadyChunks(Now("Tick", throws), throws).sm, k[1], k[2]) = RENDERED}

----------------------------------------------------------------------------
(* C24: when TerrainGenerator.update removes the mesh of a chunk farther than            *)
(* renderDistance + 1 from the camera's chunk, the state manager does not track that     *)
(* coordinate any more, whether the frame's updateCameraPosition call was accepted or    *)
(* dropped by the throttle, and a generateChunk call for it then adds it as PENDING.     *)
C24_UnmeshedIsUntracked ==
    \A c \in CamChunks, elapsed \in BOOLEAN :
        LET s == TerrainGenerator_update(Now("Frame", c), c[1], c[2], elapsed)
        IN \A k \in s.ev.unmeshed :
               /\ k \notin DOMAIN s.sm.chunks
               /\ getChunkState(ChunkManager_generateChunk(s, k[1], k[2]).sm, k[1], k[2]) = PENDING

----------------------------------------------------------------------------
(* in the chunk manager c every coordinate has at most one mesh in the scene, and it has *)
(* one exactly when the render map has an entry under its key                            *)
OneMeshPerChunk(c) ==
    \A k \in DOMAIN c.scene :
        /\ c.scene[k] <= 1
        /\ (c.scene[k] = 1) <=> (k \in c.chunks)

(* C25: in every reachable state the scene holds at most one terrain mesh per coordinate *)
(* and every mesh of the scene is the one the render map records under its key; this     *)
(* still holds after a further tick followed by an animation frame, when a READY chunk   *)
(* was consumed while an earlier mesh creation for it was waiting for its frame.         *)
C25_OneMeshPerChunk ==
    /\ OneMeshPerChunk(cm)
    /\ cm.processingInterval =>
          LET s == TickTask({})
          IN OneMeshPerChunk(RunAnimationFrameCallbacks(s).cm)

----------------------------------------------------------------------------
(* heights, and moisture and temperature samples, in tenths, around every threshold *)
BiomeHeights == {-300, -1, 0, 5, 9, 10, 11, 29, 30, 31, 40, 41, 100, 149, 150, 151, 179, 180, 181, 400}

BiomeSamples == {-10, -6, -5, -4, -2, -1, 0, 1, 2, 3, 4, 10}

(* the biomes the claimed first-match order allows for a height, a moisture and a *)
(* temperature in tenths: each biome with the condition under which it is returned *)
ClaimedBiomes(height, moisture, temperature) ==
    LET sand == height < 10 \/ (moisture > 3 /\ temperature > 1 /\ height < 30)
        forest == moisture > -1 /\ temperature > -5 /\ height > 40 /\ height < 180
    IN (IF height < 0 THEN {WATER} ELSE {})
       \cup (IF height >= 0 /\ sand THEN {SAND} ELSE {})
       \cup (IF height >= 0 /\ ~sand /\ height > 150 THEN {ROCKS} ELSE {})
       \cup (IF height >= 0 /\ ~sand /\ height <= 150 /\ forest THEN {FOREST} ELSE {})
       \cup (IF height >= 0 /\ ~sand /\ height <= 150 /\ ~forest THEN {FIELDS} ELSE {})

(* C26: the classifier of both paths returns exactly the biome of the first-match order  *)
(* water, sand, rocks, forest, fields: for every height, moisture and temperature around *)
(* the thresholds, for the chunk manager's determineBiome at the coordinates it samples, *)
(* and for every vertex of a worker result; a height below 0 is WATER whatever the       *)
(* samples, and no height above 15 is FOREST.                                            *)
C26_FirstMatchOrder ==
    /\ \A h \in BiomeHeights, m \in BiomeSamples, t \in BiomeSamples :
          /\ ClaimedBiomes(h, m, t) = {BiomeOf(h, m, t)}
          /\ h < 0 => BiomeOf(h, m, t) = WATER
          /\ h > 150 => BiomeOf(h, m, t) # FOREST
    /\ \A h \in BiomeHeights, c \in GeoChunks :
          \E b \in ClaimedBiomes(h, SampleMoisture(tg.heightGenerator, c[1], c[2]),
                                 SampleTemperature(tg.heightGenerator, c[1], c[2])) :
              determineBiome(tg.heightGenerator, c[1], c[2], h) = BiomeTypeValue(b)
    /\ (ev.op = "generateChunkGeometry" /\ ev.result.success) =>
          \A v \in DOMAIN ev.result.biomes :
              LET height == ev.result.vertices[3 * v - 1]
                  r == ev.arg.chunkResolution
                  worldX == ev.result.vertices[3 * v - 2] + 2 * r * ev.arg.chunkX * chunkSize
                  worldZ == ev.result.vertices[3 * v] + 2 * r * ev.arg.chunkZ * chunkSize
                  seed == ev.arg.heightGeneratorConfig.seed
              IN ClaimedBiomes(height, SampleMoisture(seed, worldX, worldZ),
                               SampleTemperature(seed, worldX, worldZ))
                     = {ev.result.biomes[v]}

(* a worker result holds a vertex below the water level and a vertex above 15 that is  *)
(* tagged ROCKS while its moisture and temperature are those of a forest               *)
C26_Witness ==
    /\ ev.op = "generateChunkGeometry"
    /\ ev.result.success
    /\ \E v \in DOMAIN ev.result.biomes :
          ev.result.vertices[3 * v - 1] < 0 /\ ev.result.biomes[v] = WATER
    /\ \E v \in DOMAIN ev.result.biomes :
          LET r == ev.arg.chunkResolution
              worldX == ev.result.vertices[3 * v - 2] + 2 * r * ev.arg.chunkX * chunkSize
              worldZ == ev.result.vertices[3 * v] + 2 * r * ev.arg.chunkZ * chunkSize
              seed == ev.arg.heightGeneratorConfig.seed
          IN /\ ev.result.vertices[3 * v - 1] > 150
             /\ ev.result.vertices[3 * v - 1] < 180
             /\ SampleMoisture(seed, worldX, worldZ) > -1
             /\ SampleTemperature(seed, worldX, worldZ) > -5
             /\ ev.result.biomes[v] = ROCKS

----------------------------------------------------------------------------
(* C27: a worker's successful answer moves a chunk from GENERATING to READY, and is     *)
(* stored as its geometry data, only when the answered request's id is the chunk's      *)
(* current generationId: checked for every answer possible in a reachable state.        *)
C27_ResultMatchesGenerationId ==
    \A w \in WorkerIds :
        (inflight[w] # <<>> /\ Awaited(Head(inflight[w]).id)) =>
            LET id == Head(inflight[w]).id
                k == promises[id].key
                s == WorkerMessageTask(w, TRUE)
            IN (k \in DOMAIN sm.chunks /\ sm.chunks[k].generationId # id) =>
                  /\ k \notin Range(s.ev.applied)
                  /\ k \in DOMAIN s.sm.chunks =>
                        s.sm.chunks[k].geometryData = sm.chunks[k].geometryData

(* the request ids a worker has been posted and has not answered *)
PostedTo(w) == {inflight[w][i].id : i \in DOMAIN inflight[w]}

(* C28: each request is posted to a worker at most once: no held request has been posted  *)
(* twice, and no request is unanswered at two workers at a time.                          *)
C28_PostedAtMostOnce ==
    /\ \A i \in DOMAIN pool.taskQueue : pool.taskQueue[i].posts <= 1
    /\ \A w1, w2 \in WorkerIds : w1 # w2 => PostedTo(w1) \cap PostedTo(w2) = {}

(* the coordinates TerrainGenerator.update asks for with the camera in chunk c *)
WantedAround(c) ==
    {<<c[1] + o[1], c[2] + o[2]>> : o \in Range(CircleOffsets(tg.renderDistance))}

(* the outcome s of a task leaves the program as it is *)
LeavesAtRest(s) ==
    /\ s.sm = sm
    /\ s.pool = pool
    /\ s.inflight = inflight
    /\ s.promises = promises
    /\ s.cm = cm
    /\ s.raf = raf
    /\ s.tg = tg

(* the program has come to rest with the camera in chunk c: no worker owes an answer, no *)
(* mesh callback is registered, and neither a frame with the camera in c, throttled or   *)
(* not, nor a tick of the interval changes anything                                      *)
AtRest(c) ==
    /\ tg.camera = c
    /\ raf = <<>>
    /\ \A w \in WorkerIds : inflight[w] = <<>>
    /\ \A elapsed \in BOOLEAN : LeavesAtRest(FrameTask(c, elapsed))
    /\ cm.processingInterval => LeavesAtRest(TickTask({}))

(* C29: with the camera staying in chunk c and workers that answer, every coordinate      *)
(* within renderDistance of c ends with its mesh in the render map and keeps it, whatever *)
(* happened before: whenever the program has come to rest with the camera in c, where     *)
(* frames, ticks and callbacks change nothing any more, each of these coordinates has its *)
(* mesh.                                                                                  *)
C29_MeshedAtRest ==
    \A c \in CamChunks : AtRest(c) => WantedAround(c) \subseteq cm.chunks

(* C29 as a property of whole runs, under the fairness of SpecLive: if the camera stays   *)
(* in c from some task on, no worker ever fails and camera updates keep being accepted,   *)
(* then from some task on every coordinate within renderDistance of c has its mesh.       *)
C29_SettlesAroundCamera ==
    \A c \in CamChunks :
        (<>[](tg.camera = c) /\ [](failures = 0) /\ []<>ev.centered)
            => <>[](WantedAround(c) \subseteq cm.chunks)

(* the ids generateChunk requests carry in the pool's specifications *)
PoolIds == {<<c[1], c[2], n>> : c \in PoolChunks, n \in 0..(MaxQueue + PoolWorkers)}

(* C30: provided every worker keeps getting rid of what it was posted (it answers, errors *)
(* or is terminated), every promise generateChunk returned is settled in the end, those   *)
(* of requests submitted after dispose() included.                                        *)
C30_EveryPromiseSettles ==
    (\A w \in WorkerIds : []<>(inflight[w] = <<>>))
        => \A id \in PoolIds : (id \in host.unsettled) ~> (id \notin host.unsettled)

(* every unsettled promise is one C30 follows *)
C30_IdsCovered == host.unsettled \subseteq PoolIds

====
